---- MODULE Spec2Model ----
(***************************************************************************)
(* HydroSleep Tracker backend: the water-log, sleep-entry and goal stores, *)
(* the request handlers that write them and the weekly reads that are      *)
(* derived from them.                                                      *)
(*                                                                         *)
(* Time.  An instant is a number of hours since local midnight of day 0,   *)
(* which is a Sunday.  A JavaScript Date does its calendar arithmetic      *)
(* (setHours, setDate, getDay, toDateString) in the local time zone of the *)
(* server process and its subtraction in elapsed time, so the two differ   *)
(* in a week in which the zone changes its offset.  dstShift is the change *)
(* of the offset that happens during day DstDay: 0 in a zone without       *)
(* daylight saving, +1 when the clocks go back (a 25 hour day), -1 when    *)
(* they go forward (a 23 hour day).                                        *)
(*                                                                         *)
(* Requests.  Every await of a handler is a point where another request    *)
(* may run, so a handler that reads and then writes the store is two       *)
(* steps, with the document it read kept in its slot of req in between.    *)
(* The goal handlers and the reads are one step each: a read writes        *)
(* nothing, and it answers with what the store holds when it runs.         *)
(***************************************************************************)
EXTENDS Integers, Sequences, FiniteSets, TLC

VARIABLES
    now,            \* the wall clock, new Date()
    dstShift,       \* offset change of the server's zone during DstDay
    users,          \* User collection
    registered,     \* ids of the users whose POST /register answered 201
    goals,          \* Goal collection
    waterLogs,      \* WaterLog collection
    sleepEntries,   \* SleepEntry collection
    nextId,         \* the next ObjectId
    req,            \* the requests in flight, one per slot
    passedMl,       \* history: the sum of the amounts of the add-water calls
    sleepCalls,     \* history: the payloads of the sleep-entry log calls
    screenTimes,    \* ScreenTime collection
    lastSynced,     \* history: the last entry written for a key of ScreenTime
    screenCache     \* the client's AsyncStorage items of the screen-time service

vars == <<now, dstShift, users, registered, goals, waterLogs, sleepEntries,
          nextId, req, passedMl, sleepCalls, screenTimes, lastSynced, screenCache>>

(***************************************************************************)
(* Bounds of the model.                                                    *)
(***************************************************************************)
MaxDay        == 13     \* the clock stops at the end of day MaxDay
MaxWaterLogs  == 3      \* WaterLog documents of a run of add-water calls
MaxUpsertMl   == 500    \* no further add-water on a record above this amount
MaxRaceLogs   == 2      \* WaterLog documents of a run of concurrent calls
MaxRaceMl     == 250    \* no further concurrent add-water above this amount
DstDay        == 7      \* the day during which the zone changes its offset

Slots    == {1, 2}
NoDoc    == [id |-> 0]
NoDate   == -1          \* the request carries no date

(***************************************************************************)
(* Calendar.                                                               *)
(***************************************************************************)
HoursPerDay == 24
TickHours   == 24
DstShifts   == {-1, 0, 1}

\* The instant of local midnight at the start of calendar day d.
LocalMidnight(d) == d * HoursPerDay + (IF d > DstDay THEN dstShift ELSE 0)

\* The local calendar day an instant falls in (what toDateString compares).
DayOf(t) ==
    CHOOSE d \in (t \div HoursPerDay - 1) .. (t \div HoursPerDay + 1) :
        LocalMidnight(d) <= t /\ t < LocalMidnight(d + 1)

\* Date.prototype.setHours(0, 0, 0, 0)
StartOfDay(t) == LocalMidnight(DayOf(t))

\* d.setDate(d.getDate() + n) on a Date that is at local midnight
AddDays(t, n) == LocalMidnight(DayOf(t) + n)

\* Date.prototype.getDay(): 0 is Sunday
GetDay(t) == DayOf(t) % 7

(***************************************************************************)
(* JSON values and what the validators and the arithmetic do with them.    *)
(* express-validator checks the string form of a value and, without a      *)
(* sanitizer, leaves req.body as it was parsed: a numeric string stays a   *)
(* string.                                                                 *)
(***************************************************************************)
Num(n) == [type |-> "num", val |-> n]
Str(n) == [type |-> "str", val |-> n]      \* the decimal numeral of n, as a string

\* validator isInt({ min }) and isInt({ min, max }), on the string form
IsIntMin(v, min) == v.val >= min
IsInt(v, min, max) == v.val >= min /\ v.val <= max

\* Number of decimal digits of a natural number
RECURSIVE Digits(_)
Digits(n) == IF n < 10 THEN 1 ELSE 1 + Digits(n \div 10)

RECURSIVE Pow10(_)
Pow10(k) == IF k = 0 THEN 1 ELSE 10 * Pow10(k - 1)

\* JavaScript old + v for a number old: addition for a number v, concatenation
\* of the numerals for a string v; the Number schema type then casts the
\* result to a number.
JsPlus(old, v) ==
    IF v.type = "num" THEN old + v.val
    ELSE old * Pow10(Digits(v.val)) + v.val

\* Mongoose casting a value to a Number path
CastNumber(v) == v.val

(***************************************************************************)
(* Requests.                                                               *)
(***************************************************************************)
Idle == [pc |-> "idle"]
Free(r) == req[r].pc \in {"idle", "done"}
Response(op, status, body) == [pc |-> "done", op |-> op, status |-> status, body |-> body]
Error(op, status, msg) == Response(op, status, [error |-> msg])

\* authMiddleware: the token names a user id
Authenticated(u) == \E x \in users : x.id = u

\* The document with the least _id of a set of documents (natural order)
First(docs) == IF docs = {} THEN NoDoc
               ELSE CHOOSE d \in docs : \A e \in docs : d.id <= e.id

(***************************************************************************)
(* Goals as the handlers read them.                                        *)
(***************************************************************************)
DefaultGoalMl == 3000

\* Goal.findOne({ userId, type })
FindGoalByType(u, type) == First({g \in goals : g.userId = u /\ g.type = type})

\* A read without the value to fall back on
DailyGoalMlOfGoal(u) ==
    LET waterGoal == FindGoalByType(u, "water")
    IN  IF waterGoal # NoDoc THEN waterGoal.value * 1000 ELSE 0

\* const dailyGoalMl = waterGoal ? waterGoal.value * 1000 : 3000
DailyGoalMl(u) ==
    LET waterGoal == FindGoalByType(u, "water")
    IN  IF waterGoal # NoDoc THEN waterGoal.value * 1000 ELSE DefaultGoalMl

(***************************************************************************)
(* POST /api/water: add water to the day's log.                            *)
(***************************************************************************)
\* WaterLog.findOne({ userId, date: logDate })
FindOneWaterLog(u, logDate) ==
    First({l \in waterLogs : l.userId = u /\ l.date = logDate})

\* const logDate = date ? new Date(date) : new Date(); logDate.setHours(0,0,0,0)
LogDate(date) == StartOfDay(IF date = NoDate THEN now ELSE date)

\* Validation, the day of the log and the lookup of the day's document.
PostWaterFind(r, u, body) ==
    /\ Free(r)
    /\ Authenticated(u)
    /\ req' = [req EXCEPT ![r] =
          IF ~IsIntMin(body.amountMl, 1)
          THEN Error("postWater", 400, "Amount must be a positive number")
          ELSE [pc       |-> "waterSave",
                userId   |-> u,
                logDate  |-> LogDate(body.date),
                amountMl |-> body.amountMl,
                waterLog |-> FindOneWaterLog(u, LogDate(body.date))]]
    /\ UNCHANGED <<now, dstShift, users, registered, goals, waterLogs,
                   sleepEntries, nextId, passedMl, sleepCalls,
                   screenTimes, lastSynced, screenCache>>

\* waterLog.amountMl += amountMl on the document that was read, or a new
\* document; save(); then the answer with the goal.
PostWaterSave(r) ==
    /\ req[r].pc = "waterSave"
    /\ LET q     == req[r]
           key   == <<q.userId, q.logDate>>
           saved == IF q.waterLog # NoDoc
                    THEN [q.waterLog EXCEPT !.amountMl = JsPlus(q.waterLog.amountMl, q.amountMl)]
                    ELSE [id |-> nextId, userId |-> q.userId, date |-> q.logDate,
                          amountMl |-> CastNumber(q.amountMl)]
       IN  /\ waterLogs' = IF q.waterLog # NoDoc
                           THEN {IF l.id = saved.id THEN saved ELSE l : l \in waterLogs}
                           ELSE waterLogs \cup {saved}
           /\ nextId' = IF q.waterLog # NoDoc THEN nextId ELSE nextId + 1
           /\ passedMl' = [k \in DOMAIN passedMl \cup {key} |->
                             (IF k \in DOMAIN passedMl THEN passedMl[k] ELSE 0)
                             + (IF k = key THEN q.amountMl.val ELSE 0)]
           /\ req' = [req EXCEPT ![r] =
                 Response("postWater", 201,
                          [dailyGoalMl |-> DailyGoalMl(q.userId)])]
    /\ UNCHANGED <<now, dstShift, users, registered, goals, sleepEntries, sleepCalls,
                   screenTimes, lastSynced, screenCache>>

(***************************************************************************)
(* PUT /api/water/:id                                                      *)
(***************************************************************************)
\* An update that looks the log up by its id alone
PutWaterById(r, u, id, body) ==
    /\ Free(r)
    /\ Authenticated(u)
    /\ LET match == {l \in waterLogs : l.id = id}
       IN  IF ~IsIntMin(body.amountMl, 0)
           THEN /\ req' = [req EXCEPT ![r] =
                             Error("putWater", 400, "Amount must be a non-negative number")]
                /\ UNCHANGED waterLogs
           ELSE IF match = {}
           THEN /\ req' = [req EXCEPT ![r] = Error("putWater", 404, "Water log not found")]
                /\ UNCHANGED waterLogs
           ELSE /\ waterLogs' = {IF l \in match
                                 THEN [l EXCEPT !.amountMl = CastNumber(body.amountMl)]
                                 ELSE l : l \in waterLogs}
                /\ req' = [req EXCEPT ![r] =
                             Response("putWater", 200,
                                      [id |-> id, amountMl |-> CastNumber(body.amountMl)])]
    /\ UNCHANGED <<now, dstShift, users, registered, goals, sleepEntries, nextId,
                   passedMl, sleepCalls,
                   screenTimes, lastSynced, screenCache>>

\* WaterLog.findOneAndUpdate({ _id: id, userId }, { amountMl }): one atomic
\* step
PutWater(r, u, id, body) ==
    /\ Free(r)
    /\ Authenticated(u)
    /\ LET match == {l \in waterLogs : l.id = id /\ l.userId = u}
       IN  IF ~IsIntMin(body.amountMl, 0)
           THEN /\ req' = [req EXCEPT ![r] =
                             Error("putWater", 400, "Amount must be a non-negative number")]
                /\ UNCHANGED waterLogs
           ELSE IF match = {}
           THEN /\ req' = [req EXCEPT ![r] = Error("putWater", 404, "Water log not found")]
                /\ UNCHANGED waterLogs
           ELSE /\ waterLogs' = {IF l \in match
                                 THEN [l EXCEPT !.amountMl = CastNumber(body.amountMl)]
                                 ELSE l : l \in waterLogs}
                /\ req' = [req EXCEPT ![r] =
                             Response("putWater", 200,
                                      [id |-> id, amountMl |-> CastNumber(body.amountMl)])]
    /\ UNCHANGED <<now, dstShift, users, registered, goals, sleepEntries, nextId,
                   passedMl, sleepCalls,
                   screenTimes, lastSynced, screenCache>>

(***************************************************************************)
(* POST /api/sleep: log the sleep entry of a day.                          *)
(***************************************************************************)
SleepNumberFields == {"durationMinutes", "restedPercent", "remPercent", "deepSleepPercent"}

\* The first message of validationResult(req) for POST /api/sleep, "" if none
PostSleepError(body) ==
    IF body.date = NoDate THEN "Valid date is required"
    ELSE IF ~IsIntMin(body.durationMinutes, 0) THEN "Duration must be a positive number"
    ELSE IF ~IsInt(body.restedPercent, 0, 100) THEN "Rested percent must be 0-100"
    ELSE IF ~IsInt(body.remPercent, 0, 100) THEN "REM percent must be 0-100"
    ELSE IF ~IsInt(body.deepSleepPercent, 0, 100) THEN "Deep sleep percent must be 0-100"
    ELSE ""

\* The five fields the handler assigns, as the schema casts them
SleepPayload(body) ==
    [durationMinutes  |-> CastNumber(body.durationMinutes),
     restedPercent    |-> CastNumber(body.restedPercent),
     remPercent       |-> CastNumber(body.remPercent),
     deepSleepPercent |-> CastNumber(body.deepSleepPercent),
     notes            |-> body.notes]            \* notes || ''

\* SleepEntry.findOne({ userId, date: entryDate })
FindOneSleepEntry(u, entryDate) ==
    First({e \in sleepEntries : e.userId = u /\ e.date = entryDate})

\* A handler that forgets to assign the notes of the new payload
SaveSleepEntryKeepingNotes(stored, read, payload) ==
    [f \in DOMAIN stored |->
        IF f \in DOMAIN payload /\ f # "notes" /\ payload[f] # read[f]
        THEN payload[f] ELSE stored[f]]

\* The document as save() leaves it in the store: Mongoose writes the paths
\* that were modified on the document that was read.
SaveSleepEntry(stored, read, payload) ==
    [f \in DOMAIN stored |->
        IF f \in DOMAIN payload /\ payload[f] # read[f] THEN payload[f] ELSE stored[f]]

PostSleepFind(r, u, body) ==
    /\ Free(r)
    /\ Authenticated(u)
    /\ req' = [req EXCEPT ![r] =
          IF PostSleepError(body) # ""
          THEN Error("postSleep", 400, PostSleepError(body))
          ELSE [pc         |-> "sleepSave",
                userId     |-> u,
                entryDate  |-> StartOfDay(body.date),
                payload    |-> SleepPayload(body),
                sleepEntry |-> FindOneSleepEntry(u, StartOfDay(body.date))]]
    /\ UNCHANGED <<now, dstShift, users, registered, goals, waterLogs,
                   sleepEntries, nextId, passedMl, sleepCalls,
                   screenTimes, lastSynced, screenCache>>

PostSleepSave(r) ==
    /\ req[r].pc = "sleepSave"
    /\ LET q      == req[r]
           key    == <<q.userId, q.entryDate>>
           stored == {e \in sleepEntries : e.id = q.sleepEntry.id}
           unmodified == \A f \in DOMAIN q.payload : q.payload[f] = q.sleepEntry[f]
       IN  /\ IF q.sleepEntry = NoDoc
              THEN /\ sleepEntries' = sleepEntries \cup
                        {[id |-> nextId, userId |-> q.userId, date |-> q.entryDate]
                           @@ q.payload}
                   /\ nextId' = nextId + 1
                   /\ req' = [req EXCEPT ![r] = Response("postSleep", 201, [id |-> nextId])]
              ELSE IF stored = {} /\ ~unmodified
              THEN \* the document was deleted since it was read: save() throws
                   /\ UNCHANGED <<sleepEntries, nextId>>
                   /\ req' = [req EXCEPT ![r] = Error("postSleep", 500, "Server error")]
              ELSE /\ sleepEntries' =
                        {IF e.id = q.sleepEntry.id
                         THEN SaveSleepEntry(e, q.sleepEntry, q.payload) ELSE e
                           : e \in sleepEntries}
                   /\ nextId' = nextId
                   /\ req' = [req EXCEPT ![r] =
                                Response("postSleep", 201, [id |-> q.sleepEntry.id])]
           /\ sleepCalls' = [k \in DOMAIN sleepCalls \cup {key} |->
                               IF k = key
                               THEN (IF k \in DOMAIN sleepCalls THEN sleepCalls[k] ELSE << >>)
                                    \o <<q.payload>>
                               ELSE sleepCalls[k]]
    /\ UNCHANGED <<now, dstShift, users, registered, goals, waterLogs, passedMl,
                   screenTimes, lastSynced, screenCache>>

(***************************************************************************)
(* PUT /api/sleep/:id and DELETE /api/sleep/:id                            *)
(***************************************************************************)
Absent == [type |-> "absent"]

\* Validators that check the duration only
PutSleepErrorOfDuration(body) ==
    IF body.durationMinutes # Absent /\ ~IsIntMin(body.durationMinutes, 0)
    THEN "Duration must be a positive number"
    ELSE ""

PutSleepError(body) ==
    IF body.durationMinutes # Absent /\ ~IsIntMin(body.durationMinutes, 0)
    THEN "Duration must be a positive number"
    ELSE IF body.restedPercent # Absent /\ ~IsInt(body.restedPercent, 0, 100)
    THEN "Rested percent must be 0-100"
    ELSE IF body.remPercent # Absent /\ ~IsInt(body.remPercent, 0, 100)
    THEN "REM percent must be 0-100"
    ELSE IF body.deepSleepPercent # Absent /\ ~IsInt(body.deepSleepPercent, 0, 100)
    THEN "Deep sleep percent must be 0-100"
    ELSE ""

\* SleepEntry.findOneAndUpdate({ _id: id, userId }, updates): one atomic step
ApplySleepUpdates(e, body) ==
    [f \in DOMAIN e |->
        IF f \in SleepNumberFields /\ body[f] # Absent THEN CastNumber(body[f])
        ELSE IF f = "notes" /\ body.notes # Absent THEN body.notes.val
        ELSE e[f]]

PutSleep(r, u, id, body) ==
    /\ Free(r)
    /\ Authenticated(u)
    /\ LET match == {e \in sleepEntries : e.id = id /\ e.userId = u}
       IN  IF PutSleepError(body) # ""
           THEN /\ req' = [req EXCEPT ![r] = Error("putSleep", 400, PutSleepError(body))]
                /\ UNCHANGED sleepEntries
           ELSE IF match = {}
           THEN /\ req' = [req EXCEPT ![r] = Error("putSleep", 404, "Sleep entry not found")]
                /\ UNCHANGED sleepEntries
           ELSE /\ sleepEntries' = {IF e \in match THEN ApplySleepUpdates(e, body) ELSE e
                                      : e \in sleepEntries}
                /\ req' = [req EXCEPT ![r] = Response("putSleep", 200, [id |-> id])]
    /\ UNCHANGED <<now, dstShift, users, registered, goals, waterLogs, nextId,
                   passedMl, sleepCalls,
                   screenTimes, lastSynced, screenCache>>

\* SleepEntry.deleteOne({ _id: id, userId })
DeleteSleep(r, u, id) ==
    /\ Free(r)
    /\ Authenticated(u)
    /\ LET match == {e \in sleepEntries : e.id = id /\ e.userId = u}
       IN  /\ sleepEntries' = sleepEntries \ match
           /\ req' = [req EXCEPT ![r] =
                 IF match = {} THEN Error("deleteSleep", 404, "Sleep entry not found")
                 ELSE Response("deleteSleep", 200,
                               [message |-> "Sleep entry deleted successfully"])]
    /\ UNCHANGED <<now, dstShift, users, registered, goals, waterLogs, nextId,
                   passedMl, sleepCalls,
                   screenTimes, lastSynced, screenCache>>

(***************************************************************************)
(* POST /api/auth/register and the seeding of the default goals.           *)
(***************************************************************************)
\* src/server/src/utils/seedGoals.js, DEFAULT_GOALS
DefaultGoals ==
    << [type |-> "exercise", label |-> "Exercise Regularly", value |-> 4,
        unit |-> "times/week", isDefault |-> TRUE],
       [type |-> "water", label |-> "Drink Water", value |-> 3,
        unit |-> "L/day", isDefault |-> TRUE],
       [type |-> "sleep", label |-> "Improve Sleep", value |-> 8,
        unit |-> "hours/night", isDefault |-> TRUE] >>

GoalDoc(id, u, g) ==
    [id |-> id, userId |-> u, type |-> g.type, label |-> g.label,
     value |-> g.value, unit |-> g.unit, isDefault |-> g.isDefault]

\* The validators of POST /register; "" stands for a body that fails one.
RegisterFind(r, email) ==
    /\ Free(r)
    /\ req' = [req EXCEPT ![r] =
          IF email = ""
          THEN Error("register", 400, "Valid email is required")
          ELSE IF \E x \in users : x.email = email      \* User.findOne({ email })
          THEN Error("register", 400, "Email already registered")
          ELSE [pc |-> "registerSave", email |-> email]]
    /\ UNCHANGED <<now, dstShift, users, registered, goals, waterLogs,
                   sleepEntries, nextId, passedMl, sleepCalls,
                   screenTimes, lastSynced, screenCache>>

\* await user.save(): the email index is unique
RegisterSaveUser(r) ==
    /\ req[r].pc = "registerSave"
    /\ IF \E x \in users : x.email = req[r].email
       THEN /\ req' = [req EXCEPT ![r] = Error("register", 500, "Server error")]
            /\ UNCHANGED <<users, nextId>>
       ELSE /\ users' = users \cup {[id |-> nextId, email |-> req[r].email]}
            /\ nextId' = nextId + 1
            /\ req' = [req EXCEPT ![r] = [pc |-> "seedFind", userId |-> nextId]]
    /\ UNCHANGED <<now, dstShift, registered, goals, waterLogs, sleepEntries,
                   passedMl, sleepCalls,
                   screenTimes, lastSynced, screenCache>>

\* createDefaultGoals: const existingGoals = await Goal.findOne({ userId })
SeedFind(r) ==
    /\ req[r].pc = "seedFind"
    /\ req' = [req EXCEPT ![r] =
          [pc |-> "seedInsert", userId |-> req[r].userId,
           existingGoals |-> First({g \in goals : g.userId = req[r].userId})]]
    /\ UNCHANGED <<now, dstShift, users, registered, goals, waterLogs,
                   sleepEntries, nextId, passedMl, sleepCalls,
                   screenTimes, lastSynced, screenCache>>

\* if (!existingGoals) await Goal.insertMany(goals); then the token and 201
SeedInsert(r) ==
    /\ req[r].pc = "seedInsert"
    /\ LET u == req[r].userId
       IN  /\ IF req[r].existingGoals = NoDoc
              THEN /\ goals' = goals \cup
                         {GoalDoc(nextId + i - 1, u, DefaultGoals[i])
                            : i \in 1 .. Len(DefaultGoals)}
                   /\ nextId' = nextId + Len(DefaultGoals)
              ELSE UNCHANGED <<goals, nextId>>
           /\ registered' = registered \cup {u}
           /\ req' = [req EXCEPT ![r] = Response("register", 201, [id |-> u])]
    /\ UNCHANGED <<now, dstShift, users, waterLogs, sleepEntries, passedMl, sleepCalls,
                   screenTimes, lastSynced, screenCache>>

\* The store fails during insertMany: the ordered insert stops after k
\* documents, the error reaches the catch block and the request answers 500.
SeedInsertFails(r, k) ==
    /\ req[r].pc = "seedInsert"
    /\ req[r].existingGoals = NoDoc
    /\ k \in 0 .. (Len(DefaultGoals) - 1)
    /\ goals' = goals \cup
           {GoalDoc(nextId + i - 1, req[r].userId, DefaultGoals[i]) : i \in 1 .. k}
    /\ nextId' = nextId + k
    /\ req' = [req EXCEPT ![r] = Error("register", 500, "Server error")]
    /\ UNCHANGED <<now, dstShift, users, registered, waterLogs, sleepEntries,
                   passedMl, sleepCalls,
                   screenTimes, lastSynced, screenCache>>

(***************************************************************************)
(* /api/goals: create, update by id, update by type, delete.               *)
(***************************************************************************)
\* validator isNumeric(), on the string form
IsNumeric(v) == v.type \in {"num", "str"}

\* The answer of a goal request, with the user and the :id of the request; of
\* the serialized goal the model keeps the type and the is-default flag.
GoalResponse(op, status, u, g) ==
    [pc |-> "done", op |-> op, status |-> status, userId |-> u, id |-> g.id,
     body |-> [type |-> g.type, isDefault |-> g.isDefault]]

GoalError(op, status, u, id, msg) ==
    [pc |-> "done", op |-> op, status |-> status, userId |-> u, id |-> id,
     body |-> [error |-> msg]]

GoalDeleted(u, id) ==
    [pc |-> "done", op |-> "deleteGoal", status |-> 200, userId |-> u, id |-> id,
     body |-> [message |-> "Goal deleted successfully"]]

\* A handler that takes the type of the new goal from the request body
CreateGoalTypeFromBody(r, u, body) ==
    /\ Free(r)
    /\ Authenticated(u)
    /\ body.label # "" /\ IsNumeric(body.value) /\ body.unit # ""
    /\ LET goal == [id |-> nextId, userId |-> u, type |-> body.type,
                    label |-> body.label, value |-> CastNumber(body.value),
                    unit |-> body.unit, isDefault |-> FALSE]
       IN  /\ goals' = goals \cup {goal}
           /\ nextId' = nextId + 1
           /\ req' = [req EXCEPT ![r] = GoalResponse("createGoal", 201, u, goal)]
    /\ UNCHANGED <<now, dstShift, users, registered, waterLogs, sleepEntries,
                   passedMl, sleepCalls,
                   screenTimes, lastSynced, screenCache>>

\* POST /api/goals
CreateGoal(r, u, body) ==
    /\ Free(r)
    /\ Authenticated(u)
    /\ IF body.label = ""
       THEN /\ req' = [req EXCEPT ![r] = GoalError("createGoal", 400, u, 0, "Label is required")]
            /\ UNCHANGED <<goals, nextId>>
       ELSE IF ~IsNumeric(body.value)
       THEN /\ req' = [req EXCEPT ![r] = GoalError("createGoal", 400, u, 0, "Value must be a number")]
            /\ UNCHANGED <<goals, nextId>>
       ELSE IF body.unit = ""
       THEN /\ req' = [req EXCEPT ![r] = GoalError("createGoal", 400, u, 0, "Unit is required")]
            /\ UNCHANGED <<goals, nextId>>
       ELSE LET goal == [id |-> nextId, userId |-> u, type |-> "custom",
                         label |-> body.label, value |-> CastNumber(body.value),
                         unit |-> body.unit, isDefault |-> FALSE]
            IN  /\ goals' = goals \cup {goal}
                /\ nextId' = nextId + 1
                /\ req' = [req EXCEPT ![r] = GoalResponse("createGoal", 201, u, goal)]
    /\ UNCHANGED <<now, dstShift, users, registered, waterLogs, sleepEntries,
                   passedMl, sleepCalls,
                   screenTimes, lastSynced, screenCache>>

\* An update that takes the label and the unit for a goal of any kind
UpdatedGoalOfAnyKind(goal, body) ==
    [goal EXCEPT
        !.value = IF body.value # Absent THEN CastNumber(body.value) ELSE @,
        !.label = IF body.label # Absent THEN body.label.val ELSE @,
        !.unit  = IF body.unit # Absent THEN body.unit.val ELSE @]

\* The goal of PUT /api/goals/:id after the assignments of the handler
UpdatedGoal(goal, body) ==
    [goal EXCEPT
        !.value = IF body.value # Absent THEN CastNumber(body.value) ELSE @,
        !.label = IF ~goal.isDefault /\ body.label # Absent THEN body.label.val ELSE @,
        !.unit  = IF ~goal.isDefault /\ body.unit # Absent THEN body.unit.val ELSE @]

\* The first message of validationResult(req) for PUT /api/goals/:id, "" if
\* none
PutGoalError(body) ==
    IF body.value # Absent /\ ~IsNumeric(body.value) THEN "Value must be a number"
    ELSE IF body.label # Absent /\ body.label.val = "" THEN "Label cannot be empty"
    ELSE IF body.unit # Absent /\ body.unit.val = "" THEN "Unit cannot be empty"
    ELSE ""

\* PUT /api/goals/:id
PutGoal(r, u, id, body) ==
    /\ Free(r)
    /\ Authenticated(u)
    /\ LET match == {g \in goals : g.id = id /\ g.userId = u}
           goal  == First(match)
       IN  IF PutGoalError(body) # ""
           THEN /\ req' = [req EXCEPT ![r] =
                             GoalError("putGoal", 400, u, id, PutGoalError(body))]
                /\ UNCHANGED goals
           ELSE IF match = {}
           THEN /\ req' = [req EXCEPT ![r] = GoalError("putGoal", 404, u, id, "Goal not found")]
                /\ UNCHANGED goals
           ELSE /\ goals' = (goals \ match) \cup {UpdatedGoal(goal, body)}
                /\ req' = [req EXCEPT ![r] =
                             GoalResponse("putGoal", 200, u, UpdatedGoal(goal, body))]
    /\ UNCHANGED <<now, dstShift, users, registered, waterLogs, sleepEntries,
                   nextId, passedMl, sleepCalls,
                   screenTimes, lastSynced, screenCache>>

\* PUT /api/goals/type/:type: Goal.findOneAndUpdate({ userId, type }, { value })
PutGoalByType(r, u, type, value) ==
    /\ Free(r)
    /\ Authenticated(u)
    /\ LET goal == FindGoalByType(u, type)
       IN  IF ~IsNumeric(value)
           THEN /\ req' = [req EXCEPT ![r] = GoalError("putGoalByType", 400, u, 0, "Value must be a number")]
                /\ UNCHANGED goals
           ELSE IF goal = NoDoc
           THEN /\ req' = [req EXCEPT ![r] = GoalError("putGoalByType", 404, u, 0, "Goal not found")]
                /\ UNCHANGED goals
           ELSE /\ goals' = (goals \ {goal}) \cup {[goal EXCEPT !.value = CastNumber(value)]}
                /\ req' = [req EXCEPT ![r] =
                             GoalResponse("putGoalByType", 200, u,
                                          [goal EXCEPT !.value = CastNumber(value)])]
    /\ UNCHANGED <<now, dstShift, users, registered, waterLogs, sleepEntries,
                   nextId, passedMl, sleepCalls,
                   screenTimes, lastSynced, screenCache>>

\* A handler without the check of the is-default flag
DeleteGoalUnchecked(r, u, id) ==
    /\ Free(r)
    /\ Authenticated(u)
    /\ LET match == {g \in goals : g.id = id /\ g.userId = u}
       IN  /\ goals' = goals \ match
           /\ req' = [req EXCEPT ![r] =
                 IF match = {} THEN GoalError("deleteGoal", 404, u, id, "Goal not found")
                 ELSE GoalDeleted(u, id)]
    /\ UNCHANGED <<now, dstShift, users, registered, waterLogs, sleepEntries,
                   nextId, passedMl, sleepCalls,
                   screenTimes, lastSynced, screenCache>>

\* DELETE /api/goals/:id
DeleteGoal(r, u, id) ==
    /\ Free(r)
    /\ Authenticated(u)
    /\ LET match == {g \in goals : g.id = id /\ g.userId = u}
           goal  == First(match)
       IN  IF match = {}
           THEN /\ req' = [req EXCEPT ![r] = GoalError("deleteGoal", 404, u, id, "Goal not found")]
                /\ UNCHANGED goals
           ELSE IF goal.isDefault
           THEN /\ req' = [req EXCEPT ![r] =
                             GoalError("deleteGoal", 400, u, id, "Cannot delete default goals")]
                /\ UNCHANGED goals
           ELSE /\ goals' = {g \in goals : g.id # id}      \* Goal.deleteOne({ _id: id })
                /\ req' = [req EXCEPT ![r] =
                      GoalDeleted(u, id)]
    /\ UNCHANGED <<now, dstShift, users, registered, waterLogs, sleepEntries,
                   nextId, passedMl, sleepCalls,
                   screenTimes, lastSynced, screenCache>>

(***************************************************************************)
(* GET /api/water/week, GET /api/sleep/week and GET /api/dashboard/summary *)
(***************************************************************************)
Min(a, b) == IF a <= b THEN a ELSE b

\* Math.ceil(a / b) for a >= 0 and b > 0
Ceil(a, b) == (a + b - 1) \div b

\* A week start that is the day of the reference instant itself
WeekStartToday(start) == StartOfDay(IF start = NoDate THEN now ELSE start)

\* const startDate = start ? new Date(start) : (now, set back getDay() days);
\* startDate.setHours(0, 0, 0, 0)
WeekStartDate(start) ==
    IF start = NoDate THEN StartOfDay(AddDays(now, 0 - GetDay(now)))
    ELSE StartOfDay(start)

\* find({ userId, date: { $gte: startDate, $lt: endDate } }), endDate being
\* startDate.setDate(startDate.getDate() + 7)
FindInWeek(docs, u, startDate) ==
    {d \in docs : d.userId = u /\ startDate <= d.date /\ d.date < AddDays(startDate, 7)}

\* The first document in the order of .sort({ date: 1 })
Earliest(docs) ==
    IF docs = {} THEN NoDoc
    ELSE CHOOSE d \in docs :
            \A e \in docs : d.date < e.date \/ (d.date = e.date /\ d.id <= e.id)

\* docs.find(l => new Date(l.date).toDateString() === date.toDateString())
SameDay(docs, date) == {d \in docs : DayOf(d.date) = DayOf(date)}

\* The loop of the weekly water read: one entry per day of the week.  today is
\* new Date(), the current instant.
WaterWeekEntries(u, start) ==
    LET startDate   == WeekStartDate(start)
        logs        == FindInWeek(waterLogs, u, startDate)
        dailyGoalMl == DailyGoalMl(u)
    IN  [i \in 1 .. 7 |->
           LET date     == AddDays(startDate, i - 1)
               log      == Earliest(SameDay(logs, date))
               amountMl == IF log # NoDoc THEN log.amountMl ELSE 0
           IN  [date     |-> date,
                amountMl |-> amountMl,
                goalMet  |-> amountMl >= dailyGoalMl /\ date <= now,
                id       |-> log.id]]

\* const pastDays = weekData.filter(d => new Date(d.date) <= today).length
PastDays(weekData) == Cardinality({i \in 1 .. 7 : weekData[i].date <= now})

\* The body of the answer of the weekly water read (dailyGoalLiters, which is
\* dailyGoalMl / 1000, is left out).
WaterWeek(u, start) ==
    LET entries      == WaterWeekEntries(u, start)
        goalMetCount == Cardinality({i \in 1 .. 7 : entries[i].goalMet})
        pastDays     == PastDays(entries)
    IN  [startDate     |-> WeekStartDate(start),
         dailyGoalMl   |-> DailyGoalMl(u),
         weeklyGoalMet |-> goalMetCount = pastDays /\ pastDays > 0,
         goalMetCount  |-> goalMetCount,
         entries       |-> entries]

GetWaterWeek(r, u, start) ==
    /\ Free(r)
    /\ Authenticated(u)
    /\ req' = [req EXCEPT ![r] = Response("getWaterWeek", 200, WaterWeek(u, start))]
    /\ UNCHANGED <<now, dstShift, users, registered, goals, waterLogs,
                   sleepEntries, nextId, passedMl, sleepCalls,
                   screenTimes, lastSynced, screenCache>>

\* GET /api/water/today (progress, a fraction, is left out)
WaterToday(u) ==
    LET today    == StartOfDay(now)
        tomorrow == AddDays(today, 1)
        log      == First({l \in waterLogs : l.userId = u /\ today <= l.date
                                             /\ l.date < tomorrow})
    IN  [date        |-> today,
         amountMl    |-> IF log # NoDoc THEN log.amountMl ELSE 0,
         dailyGoalMl |-> DailyGoalMl(u)]

GetWaterToday(r, u) ==
    /\ Free(r)
    /\ Authenticated(u)
    /\ req' = [req EXCEPT ![r] = Response("getWaterToday", 200, WaterToday(u))]
    /\ UNCHANGED <<now, dstShift, users, registered, goals, waterLogs,
                   sleepEntries, nextId, passedMl, sleepCalls,
                   screenTimes, lastSynced, screenCache>>

\* The body of the answer of the weekly sleep read; of the entry of a day
\* the model keeps the id.
SleepWeek(u, start) ==
    LET startDate == WeekStartDate(start)
        entries   == FindInWeek(sleepEntries, u, startDate)
    IN  [startDate |-> startDate,
         entries   |->
           [i \in 1 .. 7 |->
              LET date  == AddDays(startDate, i - 1)
                  entry == Earliest(SameDay(entries, date))
              IN  [date            |-> date,
                   durationMinutes |-> IF entry # NoDoc THEN entry.durationMinutes ELSE 0,
                   entry           |-> entry.id]]]

GetSleepWeek(r, u, start) ==
    /\ Free(r)
    /\ Authenticated(u)
    /\ req' = [req EXCEPT ![r] = Response("getSleepWeek", 200, SleepWeek(u, start))]
    /\ UNCHANGED <<now, dstShift, users, registered, goals, waterLogs,
                   sleepEntries, nextId, passedMl, sleepCalls,
                   screenTimes, lastSynced, screenCache>>

\* The days of the current week that the dashboard counts as met.  today is
\* the current instant set to midnight; the logs are in the order of find().
DashboardMetDays(u) ==
    LET today         == StartOfDay(now)
        startOfWeek   == AddDays(today, 0 - GetDay(today))
        weekWaterLogs == FindInWeek(waterLogs, u, startOfWeek)
    IN  {i \in 0 .. 6 :
           LET date == AddDays(startOfWeek, i)
               log  == First(SameDay(weekWaterLogs, date))
           IN  /\ ~(date > today)
               /\ log # NoDoc
               /\ log.amountMl >= DailyGoalMl(u)}

\* const pastDays = Math.min(7, Math.ceil((today - startOfWeek)
\*                                         / (1000 * 60 * 60 * 24)) + 1)
DashboardPastDays ==
    LET today       == StartOfDay(now)
        startOfWeek == AddDays(today, 0 - GetDay(today))
    IN  Min(7, Ceil(today - startOfWeek, HoursPerDay) + 1)

\* The water part of the body of the dashboard summary (progress, a
\* fraction, is left out).
DashboardWater(u) ==
    LET today      == StartOfDay(now)
        todayWater == First({l \in waterLogs : l.userId = u /\ today <= l.date
                                               /\ l.date < AddDays(today, 1)})
        weeklyGoalMetCount == Cardinality(DashboardMetDays(u))
    IN  [todayAmountMl      |-> IF todayWater # NoDoc THEN todayWater.amountMl ELSE 0,
         dailyGoalMl        |-> DailyGoalMl(u),
         weeklyGoalMet      |-> weeklyGoalMetCount = DashboardPastDays
                                /\ DashboardPastDays > 0,
         weeklyGoalMetCount |-> weeklyGoalMetCount]

GetDashboard(r, u) ==
    /\ Free(r)
    /\ Authenticated(u)
    /\ req' = [req EXCEPT ![r] = Response("getDashboard", 200, DashboardWater(u))]
    /\ UNCHANGED <<now, dstShift, users, registered, goals, waterLogs,
                   sleepEntries, nextId, passedMl, sleepCalls,
                   screenTimes, lastSynced, screenCache>>

(***************************************************************************)
(* GET /api/analytics/summary.  Hours and litres have one decimal and the  *)
(* average has two: the model keeps hours and litres in tenths and the     *)
(* average in hundredths, so that the roundings are integer roundings.     *)
(***************************************************************************)
\* Math.round(a / b) for a >= 0 and b > 0: the nearest integer, halves up
Round(a, b) == (2 * a + b) \div (2 * b)

\* Math.round((durationMinutes / 60) * 10) / 10, in tenths of an hour
Hours10(durationMinutes) == Round(10 * durationMinutes, 60)

\* Math.round((amountMl / 1000) * 10) / 10, in tenths of a litre
Liters10(amountMl) == Round(10 * amountMl, 1000)

RECURSIVE SumSeq(_)
SumSeq(s) == IF s = << >> THEN 0 ELSE Head(s) + SumSeq(Tail(s))

\* The query parameter range: absent, a numeral followed by "d", or a word
NoRange      == [type |-> "none"]
RangeDays(n) == [type |-> "days", val |-> n]
RangeWord    == [type |-> "word"]

\* parseInt(range): the leading numeral, or NaN
ParseInt(range) ==
    IF range.type = "days" THEN [nan |-> FALSE, val |-> range.val]
    ELSE [nan |-> TRUE, val |-> 0]

\* const range = req.query.range || '7d'; const days = parseInt(range) || 7
AnalyticsDays(query) ==
    LET range  == IF query = NoRange THEN RangeDays(7) ELSE query
        parsed == ParseInt(range)
    IN  IF parsed.nan \/ parsed.val = 0 THEN 7 ELSE parsed.val

\* startDate.setDate(startDate.getDate() - (days - 1)); setHours(0, 0, 0, 0)
AnalyticsStartDate(days) == StartOfDay(AddDays(now, 0 - (days - 1)))

\* find({ userId, date: { $gte: startDate, $lte: endDate } }), endDate being
\* the last millisecond of today
FindInRange(docs, u, startDate) ==
    {d \in docs : d.userId = u /\ startDate <= d.date
                  /\ d.date < AddDays(now, 1)}

\* A loop that runs one day further and takes every day
AnalyticsElapsedAndNext(days) == [i \in 1 .. (days + 1) |-> i - 1]

\* The values of i for which the loop does not take "if (date > today)
\* continue", in the order of the loop.
AnalyticsElapsed(days) ==
    LET startDate   == AnalyticsStartDate(days)
        NotAfter(i) == ~(AddDays(startDate, i) > now)
    IN  SelectSeq([i \in 1 .. days |-> i - 1], NotAfter)

\* findOne({ userId, date: { $gte: todayStart, $lte: todayEnd } })
FindOneToday(docs, u) ==
    First({d \in docs : d.userId = u /\ StartOfDay(now) <= d.date
                        /\ d.date < AddDays(now, 1)})

\* A count that compares the displayed values of today with the goals
CompletedTodayDisplayed(u, dailyGoalMl, sleepGoalHours) ==
    LET todayWater == FindOneToday(waterLogs, u)
        todaySleep == FindOneToday(sleepEntries, u)
    IN  (IF todayWater # NoDoc /\ 100 * Liters10(todayWater.amountMl) >= dailyGoalMl
         THEN 1 ELSE 0)
        + (IF todaySleep # NoDoc /\ Hours10(todaySleep.durationMinutes) >= sleepGoalHours * 10
           THEN 1 ELSE 0)

\* let completedToday = 0; if (todayWater && ...) completedToday++; ...
CompletedToday(u, dailyGoalMl, sleepGoalHours) ==
    LET todayWater == FindOneToday(waterLogs, u)
        todaySleep == FindOneToday(sleepEntries, u)
    IN  (IF todayWater # NoDoc /\ todayWater.amountMl >= dailyGoalMl THEN 1 ELSE 0)
        + (IF todaySleep # NoDoc /\ todaySleep.durationMinutes >= sleepGoalHours * 60
           THEN 1 ELSE 0)

\* A rate over the days instead of over the two goals of each day
CompletionRatePerDay(totalGoalCompletions, totalPossibleCompletions) ==
    IF totalPossibleCompletions > 0
    THEN Round(200 * totalGoalCompletions, totalPossibleCompletions) ELSE 0

\* totalPossibleCompletions > 0 ? Math.round((totalGoalCompletions /
\* totalPossibleCompletions) * 100) : 0
CompletionRatePercent(totalGoalCompletions, totalPossibleCompletions) ==
    IF totalPossibleCompletions > 0
    THEN Round(100 * totalGoalCompletions, totalPossibleCompletions) ELSE 0

\* The body of the answer.  getDayName is the number of the weekday.
Analytics(u, query) ==
    LET days            == AnalyticsDays(query)
        startDate       == AnalyticsStartDate(days)
        entries         == FindInRange(sleepEntries, u, startDate)
        logs            == FindInRange(waterLogs, u, startDate)
        userGoals       == {g \in goals : g.userId = u}
        waterGoal       == First({g \in userGoals : g.type = "water"})
        sleepGoal       == First({g \in userGoals : g.type = "sleep"})
        dailyGoalMl     == IF waterGoal # NoDoc THEN waterGoal.value * 1000 ELSE 3000
        dailyGoalLiters == IF waterGoal # NoDoc THEN waterGoal.value ELSE 3
        sleepGoalHours  == IF sleepGoal # NoDoc THEN sleepGoal.value ELSE 8
        elapsed         == AnalyticsElapsed(days)
        Date(k)         == AddDays(startDate, elapsed[k])
        Hours(k)        == LET sleepEntry == Earliest(SameDay(entries, Date(k)))
                           IN  IF sleepEntry # NoDoc
                               THEN Hours10(sleepEntry.durationMinutes) ELSE 0
        Liters(k)       == LET waterLog == Earliest(SameDay(logs, Date(k)))
                           IN  IF waterLog # NoDoc
                               THEN Liters10(waterLog.amountMl) ELSE 0
        sleepHours      == [k \in 1 .. Len(elapsed) |-> Hours(k)]
        waterLiters     == [k \in 1 .. Len(elapsed) |-> Liters(k)]
        dayNames        == [k \in 1 .. Len(elapsed) |-> GetDay(Date(k))]
        totalSleepHours == SumSeq(sleepHours)
        sleepDaysCount  == Cardinality({k \in 1 .. Len(elapsed) : sleepHours[k] > 0})
        sleepGoalMetCount ==
            Cardinality({k \in 1 .. Len(elapsed) :
                            sleepHours[k] > 0 /\ sleepHours[k] >= 10 * sleepGoalHours})
        waterGoalMetCount ==
            Cardinality({k \in 1 .. Len(elapsed) : waterLiters[k] >= 10 * dailyGoalLiters})
        sleepAverage    == IF sleepDaysCount > 0
                           THEN Round(10 * totalSleepHours, sleepDaysCount) ELSE 0
        completedToday  == CompletedToday(u, dailyGoalMl, sleepGoalHours)
        totalDaysTracked         == Len(dayNames)
        totalGoalCompletions     == waterGoalMetCount + sleepGoalMetCount
        totalPossibleCompletions == totalDaysTracked * 2
        weeklyCompletionRatePercent ==
            CompletionRatePercent(totalGoalCompletions, totalPossibleCompletions)
    IN  [sleep |-> [days |-> dayNames, hours |-> sleepHours, average |-> sleepAverage,
                    goalHours |-> sleepGoalHours, goalMetCount |-> sleepGoalMetCount],
         water |-> [days |-> dayNames, liters |-> waterLiters,
                    dailyGoalLiters |-> dailyGoalLiters,
                    goalMetCount |-> waterGoalMetCount],
         goals |-> [totalGoals |-> Cardinality(userGoals),
                    completedToday |-> completedToday,
                    weeklyCompletionRatePercent |-> weeklyCompletionRatePercent]]

\* The answer carries, besides the body, the user and the query of the
\* request and the instant of the answer.
GetAnalytics(r, u, query) ==
    /\ Free(r)
    /\ Authenticated(u)
    /\ req' = [req EXCEPT ![r] =
                 [pc |-> "done", op |-> "getAnalytics", status |-> 200,
                  userId |-> u, query |-> query, at |-> now,
                  body |-> Analytics(u, query)]]
    /\ UNCHANGED <<now, dstShift, users, registered, goals, waterLogs,
                   sleepEntries, nextId, passedMl, sleepCalls,
                   screenTimes, lastSynced, screenCache>>

\* The awaits of the handler, in the order of the code
AnalyticsFetches == <<"sleepEntries", "waterLogs", "goals", "todayWater", "todaySleep">>

\* A handler that answers with the summary although a fetch has failed
GetAnalyticsDespiteFailure(r, u, query, fetch) ==
    /\ Free(r)
    /\ Authenticated(u)
    /\ req' = [req EXCEPT ![r] =
                 [pc |-> "done", op |-> "getAnalytics", status |-> 200,
                  userId |-> u, query |-> query, at |-> now,
                  failed |-> AnalyticsFetches[fetch],
                  body |-> Analytics(u, query)]]
    /\ UNCHANGED <<now, dstShift, users, registered, goals, waterLogs,
                   sleepEntries, nextId, passedMl, sleepCalls,
                   screenTimes, lastSynced, screenCache>>

\* The same request when the store rejects one of the awaits: the catch of
\* the handler answers 500.  The answer keeps which await failed.
GetAnalyticsStoreFails(r, u, query, fetch) ==
    /\ Free(r)
    /\ Authenticated(u)
    /\ req' = [req EXCEPT ![r] =
                 [pc |-> "done", op |-> "getAnalytics", status |-> 500,
                  userId |-> u, query |-> query, at |-> now,
                  failed |-> AnalyticsFetches[fetch],
                  body |-> [error |-> "Server error"]]]
    /\ UNCHANGED <<now, dstShift, users, registered, goals, waterLogs,
                   sleepEntries, nextId, passedMl, sleepCalls,
                   screenTimes, lastSynced, screenCache>>

(***************************************************************************)
(* The client's getAnalyticsSummary, of which the model keeps the sleep    *)
(* part.  The client's entries are those of the weekly sleep read, taken   *)
(* here as read at the instant of the call.                                *)
(***************************************************************************)
NaN == [nan |-> TRUE, val |-> 0]
Number(n) == [nan |-> FALSE, val |-> n]

\* a / b on numbers a >= 0 and b >= 0, then Math.round(... * 100) / 100, in
\* hundredths: 0 / 0 is NaN
RoundedQuotient(a, b) ==
    IF b = 0 THEN NaN ELSE Number(Round(a, b))

\* x || 0
OrZero(x) == IF x.nan \/ x.val = 0 THEN 0 ELSE x.val

\* d.setDate(d.getDate() + n) on any Date: the time of day stays (at most the
\* last hour of a day of the calendar).
SetDate(t, n) == AddDays(t, n) + Min(t - StartOfDay(t), HoursPerDay - 1)

\* getStartOfWeek: new Date(now.setDate(now.getDate() - dayOfWeek))
GetStartOfWeek == SetDate(now, 0 - GetDay(now))

\* getWeeklySleep: the entries are those that fetchAllData keeps of the
\* weekly sleep read, compared with isSameDay.
ClientWeeklySleep(u) ==
    LET startOfWeek == GetStartOfWeek
    IN  [i \in 1 .. 7 |->
           LET date  == SetDate(startOfWeek, i - 1)
               entry == SelectSeq(SleepWeek(u, NoDate).entries,
                                  LAMBDA e : e.entry # NoDoc.id
                                             /\ DayOf(e.date) = DayOf(date))
           IN  [date            |-> date,
                durationMinutes |-> IF entry # << >> THEN entry[1].durationMinutes
                                    ELSE 0]]

ClientSleepSummary(u) ==
    LET weeklySleep  == ClientWeeklySleep(u)
        sleepHours   == [i \in 1 .. 7 |-> Hours10(weeklySleep[i].durationMinutes)]
        sleepAverage ==
            IF Len(sleepHours) > 0
            THEN RoundedQuotient(10 * SumSeq(sleepHours),
                                 Cardinality({i \in 1 .. 7 : sleepHours[i] > 0}))
            ELSE Number(0)
    IN  [sleep |-> [days    |-> [i \in 1 .. 7 |-> GetDay(weeklySleep[i].date)],
                    hours   |-> sleepHours,
                    average |-> OrZero(sleepAverage)]]

GetClientWeeklySleep(r, u) ==
    /\ Free(r)
    /\ Authenticated(u)
    /\ req' = [req EXCEPT ![r] =
                 [pc |-> "done", op |-> "getClientWeeklySleep", status |-> 200,
                  userId |-> u, at |-> now, body |-> ClientWeeklySleep(u)]]
    /\ UNCHANGED <<now, dstShift, users, registered, goals, waterLogs,
                   sleepEntries, nextId, passedMl, sleepCalls,
                   screenTimes, lastSynced, screenCache>>

GetClientSummary(r, u) ==
    /\ Free(r)
    /\ Authenticated(u)
    /\ req' = [req EXCEPT ![r] =
                 [pc |-> "done", op |-> "getClientSummary", status |-> 200,
                  userId |-> u, query |-> NoRange, at |-> now,
                  body |-> ClientSleepSummary(u)]]
    /\ UNCHANGED <<now, dstShift, users, registered, goals, waterLogs,
                   sleepEntries, nextId, passedMl, sleepCalls,
                   screenTimes, lastSynced, screenCache>>

(***************************************************************************)
(* POST /api/screen-time/sync.  The body is an array of entries; bulkWrite  *)
(* sends one updateOne with upsert per entry, and the store applies each   *)
(* of them atomically and in the order of the array, so that each updateOne *)
(* is a step of its own with the rest of the array kept in the slot.  The   *)
(* unique index on { userId, appPackage, date } makes the store retry an    *)
(* upsert that loses a race as an update, which is what a step does.        *)
(***************************************************************************)
\* String.prototype.trim on the names of the model
Trim(s) ==
    CASE s = " com.maps " -> "com.maps"
      [] s = " Maps"      -> "Maps"
      [] s = "  "         -> ""
      [] OTHER            -> s

\* /^\d{4}-\d{2}-\d{2}$/ on the dates of the model
IsIsoDate(s) == s \in {"2026-03-08", "2026-03-09"}

ScreenTimeEntry(packageName, appName, usageMs, date) ==
    [packageName |-> packageName, appName |-> appName, usageMs |-> usageMs,
     date |-> date]

\* The validators of the route, on an array: "" if every entry passes
SyncError(entries) ==
    IF \E i \in DOMAIN entries :
          \/ Trim(entries[i].packageName) = ""
          \/ Trim(entries[i].appName) = ""
          \/ ~IsNumeric(entries[i].usageMs)
          \/ ~IsIntMin(entries[i].usageMs, 0)
          \/ ~IsIsoDate(entries[i].date)
    THEN "Validation failed"
    ELSE IF Len(entries) = 0 THEN "Entries array cannot be empty"
    ELSE ""

\* entries.map(entry => ({ userId, date, appPackage, appName, usageMs }));
\* of usageMs the model keeps the value as it was sent, for the history
NormalizedEntries(u, entries) ==
    [i \in DOMAIN entries |->
        [userId     |-> u,
         date       |-> entries[i].date,
         appPackage |-> Trim(entries[i].packageName),
         appName    |-> Trim(entries[i].appName),
         sent       |-> entries[i].usageMs,
         usageMs    |-> CastNumber(entries[i].usageMs)]]

\* The validation and the normalisation, up to the await of bulkWrite
SyncStart(r, u, entries) ==
    /\ Free(r)
    /\ Authenticated(u)
    /\ req' = [req EXCEPT ![r] =
          IF SyncError(entries) # ""
          THEN Error("sync", 400, SyncError(entries))
          ELSE [pc |-> "syncWrite", userId |-> u,
                ops |-> NormalizedEntries(u, entries),
                inserted |-> 0, matched |-> 0,
                totalProcessed |-> Len(entries)]]
    /\ UNCHANGED <<now, dstShift, users, registered, goals, waterLogs,
                   sleepEntries, nextId, passedMl, sleepCalls,
                   screenTimes, lastSynced, screenCache>>

\* The key of the unique index
ScreenTimeKey(e) == <<e.userId, e.appPackage, e.date>>

\* The documents that the filter of an updateOne matches
ScreenTimeMatch(e) == {s \in screenTimes : ScreenTimeKey(s) = ScreenTimeKey(e)}

\* An update that adds the usage of the entry to the stored usage
ScreenTimeAccumulated(e) ==
    IF ScreenTimeMatch(e) = {}
    THEN {[id |-> nextId, userId |-> e.userId, appPackage |-> e.appPackage,
           date |-> e.date, appName |-> e.appName, usageMs |-> e.usageMs]}
    ELSE {[First(ScreenTimeMatch(e)) EXCEPT !.appName = e.appName,
                                            !.usageMs = @ + e.usageMs]}

\* updateOne({ filter, update: { $set: { appName, usageMs } }, upsert: true }):
\* the document that is written
ScreenTimeUpserted(e) ==
    IF ScreenTimeMatch(e) = {}
    THEN {[id |-> nextId, userId |-> e.userId, appPackage |-> e.appPackage,
           date |-> e.date, appName |-> e.appName, usageMs |-> e.usageMs]}
    ELSE {[First(ScreenTimeMatch(e)) EXCEPT !.appName = e.appName,
                                            !.usageMs = e.usageMs]}

\* One updateOne of the bulkWrite; after the last one, the answer.
SyncWrite(r) ==
    /\ req[r].pc = "syncWrite"
    /\ LET e        == Head(req[r].ops)
           match    == ScreenTimeMatch(e)
           inserted == req[r].inserted + (IF match = {} THEN 1 ELSE 0)
           matched  == req[r].matched + (IF match = {} THEN 0 ELSE 1)
       IN  /\ screenTimes' = (screenTimes \ {First(match)}) \cup ScreenTimeUpserted(e)
           /\ nextId' = IF match = {} THEN nextId + 1 ELSE nextId
           /\ lastSynced' = [k \in DOMAIN lastSynced \cup {ScreenTimeKey(e)} |->
                               IF k = ScreenTimeKey(e)
                               THEN [appName |-> e.appName, usageMs |-> e.sent]
                               ELSE lastSynced[k]]
           /\ req' = [req EXCEPT ![r] =
                 IF Len(req[r].ops) > 1
                 THEN [req[r] EXCEPT !.ops = Tail(@), !.inserted = inserted,
                                     !.matched = matched]
                 ELSE Response("sync", 200,
                               [success |-> TRUE, inserted |-> inserted,
                                matched |-> matched,
                                totalProcessed |-> req[r].totalProcessed])]
    /\ UNCHANGED <<now, dstShift, users, registered, goals, waterLogs,
                   sleepEntries, passedMl, sleepCalls, screenCache>>

(***************************************************************************)
(* The client's screen-time service.  The native module's data of a range  *)
(* is known by the instant of the fetch.  An item of AsyncStorage is the    *)
(* data of a range; the date of the last fetch is one item for all ranges.  *)
(***************************************************************************)
ScreenRanges == {1, 7, 10}
NoItem == [fetchedAt |-> NoDate]
EmptyCache == [items |-> [range \in ScreenRanges |-> NoItem], lastFetchDate |-> NoDate]

\* new Date().toISOString().split('T')[0]: the day in UTC, the instant 0 of
\* the model being a midnight in UTC
IsoDate(t) == t \div HoursPerDay

\* getCachedData: the item of the range, or NoItem for null
GetCachedData(rangeInDays) ==
    LET cachedData    == screenCache.items[rangeInDays]
        lastFetchDate == screenCache.lastFetchDate
    IN  IF cachedData = NoItem \/ lastFetchDate = NoDate THEN NoItem
        ELSE IF lastFetchDate # IsoDate(now) THEN NoItem
        ELSE cachedData

\* The answer of a call: the data, whether it came from the cache, and the
\* arguments and the instant of the call
ScreenTimeData(rangeInDays, forceRefresh, fromCache, data) ==
    [pc |-> "done", op |-> "getScreenTimeData", range |-> rangeInDays,
     forceRefresh |-> forceRefresh, at |-> now, fromCache |-> fromCache,
     data |-> data]

\* getScreenTimeData(rangeInDays, forceRefresh); hasPermission is the answer
\* of the native module to isUsageAccessGranted
GetScreenTimeData(r, rangeInDays, forceRefresh, hasPermission) ==
    /\ Free(r)
    /\ LET cachedData == GetCachedData(rangeInDays)
           data       == [fetchedAt |-> now]
       IN  IF ~hasPermission
           THEN /\ req' = [req EXCEPT ![r] =
                             [pc |-> "done", op |-> "getScreenTimeData",
                              range |-> rangeInDays, forceRefresh |-> forceRefresh,
                              at |-> now, thrown |-> "PERMISSION_DENIED"]]
                /\ UNCHANGED screenCache
           ELSE IF ~forceRefresh /\ cachedData # NoItem
           THEN /\ req' = [req EXCEPT ![r] =
                             ScreenTimeData(rangeInDays, forceRefresh, TRUE, cachedData)]
                /\ UNCHANGED screenCache
           ELSE /\ screenCache' =
                      [items         |-> [screenCache.items EXCEPT ![rangeInDays] = data],
                       lastFetchDate |-> IsoDate(now)]
                /\ req' = [req EXCEPT ![r] =
                             ScreenTimeData(rangeInDays, forceRefresh, FALSE, data)]
    /\ UNCHANGED <<now, dstShift, users, registered, goals, waterLogs,
                   sleepEntries, nextId, passedMl, sleepCalls,
                   screenTimes, lastSynced>>

(***************************************************************************)
(* The clock.                                                              *)
(***************************************************************************)
Tick ==
    /\ now + TickHours < LocalMidnight(MaxDay + 1)
    /\ now' = now + TickHours
    /\ UNCHANGED <<dstShift, users, registered, goals, waterLogs, sleepEntries,
                   nextId, req, passedMl, sleepCalls,
                   screenTimes, lastSynced, screenCache>>

(***************************************************************************)
(* Initial states.                                                         *)
(***************************************************************************)
\* The server with an empty database, in a zone without daylight saving.
Init ==
    /\ now = LocalMidnight(DstDay)
    /\ dstShift = 0
    /\ users = {}
    /\ registered = {}
    /\ goals = {}
    /\ waterLogs = {}
    /\ sleepEntries = {}
    /\ nextId = 1
    /\ req = [r \in Slots |-> Idle]
    /\ passedMl = << >>
    /\ sleepCalls = << >>
    /\ screenTimes = {}
    /\ lastSynced = << >>
    /\ screenCache = EmptyCache

\* The ids that a registration uses up: the user and its default goals
IdsPerUser == 1 + Len(DefaultGoals)

UserA == 1
UserB == UserA + IdsPerUser
FirstFreeId == UserB + IdsPerUser

\* Two users have registered, one after the other: each has its three
\* default goals.
InitRegistered ==
    /\ now = LocalMidnight(DstDay)
    /\ dstShift = 0
    /\ users = {[id |-> UserA, email |-> "a@x.io"], [id |-> UserB, email |-> "b@x.io"]}
    /\ registered = {UserA, UserB}
    /\ goals = {GoalDoc(UserA + i, UserA, DefaultGoals[i]) : i \in 1 .. 3}
               \cup {GoalDoc(UserB + i, UserB, DefaultGoals[i]) : i \in 1 .. 3}
    /\ waterLogs = {}
    /\ sleepEntries = {}
    /\ nextId = FirstFreeId
    /\ req = [r \in Slots |-> Idle]
    /\ passedMl = << >>
    /\ sleepCalls = << >>
    /\ screenTimes = {}
    /\ lastSynced = << >>
    /\ screenCache = EmptyCache

\* One user has registered; the registration of a second one has saved the
\* user and failed in the insert of the goals.
InitGoals ==
    /\ now = LocalMidnight(DstDay)
    /\ dstShift = 0
    /\ users = {[id |-> UserA, email |-> "a@x.io"], [id |-> UserB, email |-> "b@x.io"]}
    /\ registered = {UserA}
    /\ goals = {GoalDoc(UserA + i, UserA, DefaultGoals[i]) : i \in 1 .. 3}
    /\ waterLogs = {}
    /\ sleepEntries = {}
    /\ nextId = UserB + 1
    /\ req = [r \in Slots |-> Idle]
    /\ passedMl = << >>
    /\ sleepCalls = << >>
    /\ screenTimes = {}
    /\ lastSynced = << >>
    /\ screenCache = EmptyCache

(***************************************************************************)
(* Add-water requests, one at a time and concurrently.                     *)
(***************************************************************************)
WaterDates == {NoDate, LocalMidnight(DstDay + 1) + 10}

\* The bounds of a run: the documents created and the amount reached.
WaterBounded(u, body, maxLogs, maxMl) ==
    /\ Cardinality(waterLogs) + Cardinality({r \in Slots : req[r].pc = "waterSave"})
         < maxLogs
    /\ FindOneWaterLog(u, LogDate(body.date)).id # 0
         => FindOneWaterLog(u, LogDate(body.date)).amountMl <= maxMl

\* One request at a time: the next one starts when the last has answered.
WaterSeqBodies == [amountMl : {Num(0), Num(250), Num(500), Str(250)}, date : WaterDates]

WaterSeqNext ==
    \/ \E u \in {UserA, UserB}, body \in WaterSeqBodies :
          WaterBounded(u, body, MaxWaterLogs, MaxUpsertMl) /\ PostWaterFind(1, u, body)
    \/ PostWaterSave(1)

SpecWaterSeq == InitRegistered /\ [][WaterSeqNext]_vars

\* Concurrent requests: any slot may start while the other is in flight.
WaterBodies == [amountMl : {Num(0), Num(250)}, date : WaterDates]

WaterNext ==
    \/ \E r \in Slots, u \in {UserA, UserB}, body \in WaterBodies :
          WaterBounded(u, body, MaxRaceLogs, MaxRaceMl) /\ PostWaterFind(r, u, body)
    \/ \E r \in Slots : PostWaterSave(r)

SpecWater == InitRegistered /\ [][WaterNext]_vars

(***************************************************************************)
(* Sleep-entry requests, one at a time and concurrently.                   *)
(***************************************************************************)
MaxSleepLogs  == 2      \* SleepEntry documents of a run
MaxSleepCalls == 2      \* log calls for one (user, day)

SleepDates == {LocalMidnight(DstDay) + 9, LocalMidnight(DstDay + 1) + 10}

SleepBody(date, duration, rested, rem, deep, notes) ==
    [date |-> date, durationMinutes |-> duration, restedPercent |-> rested,
     remPercent |-> rem, deepSleepPercent |-> deep, notes |-> notes]

SleepBodies ==
    UNION {{SleepBody(d, Num(480), Num(80), Num(20), Num(30), "slept well"),
            SleepBody(d, Str(420), Num(70), Num(25), Num(35), ""),
            SleepBody(d, Num(420), Num(101), Num(25), Num(35), "")} : d \in SleepDates}
    \cup {SleepBody(NoDate, Num(480), Num(80), Num(20), Num(30), "")}

SleepBounded(u, body) ==
    /\ (nextId - FirstFreeId) + Cardinality({r \in Slots : req[r].pc = "sleepSave"})
         < MaxSleepLogs
    /\ body.date # NoDate /\ <<u, StartOfDay(body.date)>> \in DOMAIN sleepCalls
         => Len(sleepCalls[<<u, StartOfDay(body.date)>>])
              + Cardinality({r \in Slots : req[r].pc = "sleepSave"}) < MaxSleepCalls

SleepSeqNext ==
    \/ \E u \in {UserA, UserB}, body \in SleepBodies :
          SleepBounded(u, body) /\ PostSleepFind(1, u, body)
    \/ PostSleepSave(1)

SpecSleepSeq == InitRegistered /\ [][SleepSeqNext]_vars

SleepUpdates ==
    {[durationMinutes |-> Num(300), restedPercent |-> Absent, remPercent |-> Absent,
      deepSleepPercent |-> Absent, notes |-> Absent],
     [durationMinutes |-> Absent, restedPercent |-> Num(150), remPercent |-> Absent,
      deepSleepPercent |-> Absent, notes |-> Absent]}

SleepNext ==
    \/ \E r \in Slots, u \in {UserA, UserB}, body \in SleepBodies :
          SleepBounded(u, body) /\ PostSleepFind(r, u, body)
    \/ \E r \in Slots : PostSleepSave(r)
    \/ \E r \in Slots, u \in {UserA, UserB}, id \in FirstFreeId .. nextId, body \in SleepUpdates :
          PutSleep(r, u, id, body)
    \/ \E r \in Slots, u \in {UserA, UserB}, id \in FirstFreeId .. nextId : DeleteSleep(r, u, id)

SpecSleep == InitRegistered /\ [][SleepNext]_vars

(***************************************************************************)
(* Registrations, concurrently, on an empty database.                      *)
(***************************************************************************)
Emails == {"", "a@x.io", "b@x.io"}

MaxRegisterIds == 6     \* ids handed out before the last goal is created

RegisterNext ==
    \/ \E r \in Slots, email \in Emails : RegisterFind(r, email)
    \/ \E r \in Slots : RegisterSaveUser(r)
    \/ \E r \in Slots : SeedFind(r)
    \/ \E r \in Slots : SeedInsert(r)
    \/ \E r \in Slots, k \in 0 .. 2 : SeedInsertFails(r, k)
    \/ \E r \in Slots, u \in 1 .. nextId :
          /\ nextId < MaxRegisterIds
          /\ goals = {}
          /\ CreateGoal(r, u, [type |-> "custom", label |-> "Meditate",
                               value |-> Num(10), unit |-> "min/day"])

SpecRegister == Init /\ [][RegisterNext]_vars

(***************************************************************************)
(* Goal requests of a registered user and of a user without default goals. *)
(***************************************************************************)
MaxIds         == 8     \* ids handed out in a run
MaxCustomGoals == 1     \* custom goals in the store at a time

Text(t) == [type |-> "text", val |-> t]

GoalBodies ==
    {[type |-> "water", label |-> "Meditate", value |-> Num(10), unit |-> "min/day"],
     [type |-> "water", label |-> "", value |-> Num(10), unit |-> "min/day"],
     [type |-> "water", label |-> "Meditate", value |-> Text("ten"), unit |-> "min/day"],
     [type |-> "water", label |-> "Meditate", value |-> Num(10), unit |-> ""]}

GoalUpdates ==
    {[value |-> Num(2), label |-> Text("Hydrate"), unit |-> Text("cups")],
     [value |-> Absent, label |-> Text(""), unit |-> Absent],
     [value |-> Absent, label |-> Absent, unit |-> Text("")],
     [value |-> Text("two"), label |-> Absent, unit |-> Absent]}

GoalTypes  == {"water", "sleep", "custom", "steps"}
GoalValues == {Num(0), Text("two")}

\* The :id of a request: the id of a goal in the store or an id of no goal
GoalIds == {g.id : g \in goals} \cup {nextId}

GoalsNext ==
    \/ \E u \in {UserA, UserB}, body \in GoalBodies :
          /\ nextId < MaxIds
          /\ Cardinality({g \in goals : ~g.isDefault}) < MaxCustomGoals
          /\ CreateGoal(1, u, body)
    \/ \E u \in {UserA, UserB}, id \in GoalIds, body \in GoalUpdates : PutGoal(1, u, id, body)
    \/ \E u \in {UserA, UserB}, type \in GoalTypes, value \in GoalValues :
          PutGoalByType(1, u, type, value)
    \/ \E u \in {UserA, UserB}, id \in GoalIds : DeleteGoal(1, u, id)

SpecGoals == InitGoals /\ [][GoalsNext]_vars

(***************************************************************************)
(* The weekly series: logs and entries of some days of a week, the clock   *)
(* and the two weekly reads, in a zone with or without daylight saving.    *)
(***************************************************************************)
\* Two registered users, at midnight of the first day of a week, in any zone.
InitWeek ==
    /\ now = LocalMidnight(DstDay)
    /\ dstShift \in DstShifts
    /\ users = {[id |-> UserA, email |-> "a@x.io"], [id |-> UserB, email |-> "b@x.io"]}
    /\ registered = {UserA, UserB}
    /\ goals = {GoalDoc(UserA + i, UserA, DefaultGoals[i]) : i \in 1 .. 3}
               \cup {GoalDoc(UserB + i, UserB, DefaultGoals[i]) : i \in 1 .. 3}
    /\ waterLogs = {}
    /\ sleepEntries = {}
    /\ nextId = FirstFreeId
    /\ req = [r \in Slots |-> Idle]
    /\ passedMl = << >>
    /\ sleepCalls = << >>
    /\ screenTimes = {}
    /\ lastSynced = << >>
    /\ screenCache = EmptyCache

\* The days of the week that starts on day DstDay
WeekDays == DstDay .. (DstDay + 6)

\* A WaterLog and a SleepEntry as the two POST handlers store them, with
\* values that differ from one day to the next.
StoredWaterLog(u, d) ==
    [id |-> FirstFreeId + 4 * d + (u - UserA) \div 2, userId |-> u, date |-> LocalMidnight(d),
     amountMl |-> 250 * (d + u)]

StoredSleepEntry(u, d) ==
    [id |-> FirstFreeId + 4 * d + (u - UserA) \div 2 + 1, userId |-> u,
     date |-> LocalMidnight(d),
     durationMinutes |-> 400 + 10 * (d + u), restedPercent |-> 80,
     remPercent |-> 20, deepSleepPercent |-> 30, notes |-> ""]

\* The first user has logged water on any number of days of the week and
\* sleep on the other days of the week; the second user has logged both on
\* the second day.
InitSeries ==
    /\ now = LocalMidnight(DstDay)
    /\ dstShift \in DstShifts
    /\ users = {[id |-> UserA, email |-> "a@x.io"], [id |-> UserB, email |-> "b@x.io"]}
    /\ registered = {UserA, UserB}
    /\ goals = {GoalDoc(UserA + i, UserA, DefaultGoals[i]) : i \in 1 .. 3}
               \cup {GoalDoc(UserB + i, UserB, DefaultGoals[i]) : i \in 1 .. 3}
    /\ \E logged \in SUBSET WeekDays :
          /\ waterLogs = {StoredWaterLog(UserA, d) : d \in logged}
                         \cup {StoredWaterLog(UserB, DstDay + 1)}
          /\ sleepEntries = {StoredSleepEntry(UserA, d) : d \in WeekDays \ logged}
                            \cup {StoredSleepEntry(UserB, DstDay + 1)}
    /\ nextId = FirstFreeId + 4 * (DstDay + 7)
    /\ req = [r \in Slots |-> Idle]
    /\ passedMl = << >>
    /\ sleepCalls = << >>
    /\ screenTimes = {}
    /\ lastSynced = << >>
    /\ screenCache = EmptyCache

\* The start parameter of a weekly read: none, an instant of the third day
\* of the week, the midnight that starts the next week.
WeekStarts == {NoDate, LocalMidnight(DstDay + 2) + 10, LocalMidnight(DstDay + 7)}

SeriesNext ==
    \/ \E start \in WeekStarts : GetWaterWeek(1, UserA, start)
    \/ \E start \in WeekStarts : GetSleepWeek(1, UserA, start)
    \/ Tick

SpecSeries == InitSeries /\ [][SeriesNext]_vars

(***************************************************************************)
(* The weekly water goal: logs of some days of a week, changes of the      *)
(* water goal, the clock, the weekly water read and the dashboard.         *)
(***************************************************************************)
MaxWeekLogs == 3         \* WaterLog documents of a run
MaxWeekMl   == 2999      \* no further add-water on a record above this amount

WeekWaterBodies ==
    {[amountMl |-> Num(3000), date |-> NoDate],
     [amountMl |-> Num(3500), date |-> NoDate],
     [amountMl |-> Num(3500), date |-> LocalMidnight(DstDay + 6) + 10]}

\* The values of PUT /api/goals/type/water
WeekGoalValues == {Num(3), Num(4)}

WeekNext ==
    \/ \E body \in WeekWaterBodies :
          WaterBounded(UserA, body, MaxWeekLogs, MaxWeekMl) /\ PostWaterFind(1, UserA, body)
    \/ PostWaterSave(1)
    \/ \E value \in WeekGoalValues : PutGoalByType(1, UserA, "water", value)
    \/ \E start \in {NoDate, LocalMidnight(DstDay + 7)} : GetWaterWeek(1, UserA, start)
    \/ GetDashboard(1, UserA)
    \/ Tick

SpecWeek == InitWeek /\ [][WeekNext]_vars

(***************************************************************************)
(* The analytics summary: logs and entries of some days and the summary    *)
(* for several ranges on any day, in a zone with or without daylight       *)
(* saving.                                                                 *)
(***************************************************************************)
\* The days with a stored record, and what is stored for each of them: a
\* sleep of 2 minutes shows as 0.0 hours, 2950 ml show as 3.0 litres.
StoredDays    == (DstDay + 1) .. (DstDay + 3)
StoredMinutes == <<480, 2, 420>>
StoredMl      == <<3500, 2900, 2950>>

AnalyticsWaterLog(u, d) ==
    [StoredWaterLog(u, d) EXCEPT !.amountMl = StoredMl[d - DstDay]]

AnalyticsSleepEntry(u, d) ==
    [StoredSleepEntry(u, d) EXCEPT !.durationMinutes = StoredMinutes[d - DstDay]]

\* The values of the sleep goal
SleepGoalValues == {7, 8}

\* On one of the days of the clock, the first user has set the sleep goal to
\* one of its values and has logged water on some of the stored days and
\* sleep on some of them; the second user has logged both on one day.
InitAnalytics ==
    /\ \E k \in 0 .. (MaxDay - DstDay) : now = LocalMidnight(DstDay) + k * TickHours
    /\ dstShift \in DstShifts
    /\ users = {[id |-> UserA, email |-> "a@x.io"], [id |-> UserB, email |-> "b@x.io"]}
    /\ registered = {UserA, UserB}
    /\ \E value \in SleepGoalValues :
          goals = {IF DefaultGoals[i].type = "sleep"
                   THEN [GoalDoc(UserA + i, UserA, DefaultGoals[i]) EXCEPT !.value = value]
                   ELSE GoalDoc(UserA + i, UserA, DefaultGoals[i]) : i \in 1 .. 3}
                  \cup {GoalDoc(UserB + i, UserB, DefaultGoals[i]) : i \in 1 .. 3}
    /\ \E water \in SUBSET StoredDays, sleep \in SUBSET StoredDays :
          /\ waterLogs = {AnalyticsWaterLog(UserA, d) : d \in water}
                         \cup {AnalyticsWaterLog(UserB, DstDay + 3)}
          /\ sleepEntries = {AnalyticsSleepEntry(UserA, d) : d \in sleep}
                            \cup {AnalyticsSleepEntry(UserB, DstDay + 3)}
    /\ nextId = FirstFreeId + 4 * (DstDay + 7)
    /\ req = [r \in Slots |-> Idle]
    /\ passedMl = << >>
    /\ sleepCalls = << >>
    /\ screenTimes = {}
    /\ lastSynced = << >>
    /\ screenCache = EmptyCache

\* ?range= absent, 3d, 0d, -2d, week
AnalyticsQueries == {NoRange, RangeDays(3), RangeDays(0), RangeDays(-2), RangeWord}

AnalyticsNext ==
    \/ \E query \in AnalyticsQueries : GetAnalytics(1, UserA, query)
    \/ GetClientSummary(1, UserA)

SpecAnalytics == InitAnalytics /\ [][AnalyticsNext]_vars

(***************************************************************************)
(* The analytics summary when the store may reject a fetch: the stores of  *)
(* the analytics summary, and requests of which any await may fail.        *)
(***************************************************************************)
StoreFailsQueries == {NoRange, RangeDays(3)}

StoreFailsNext ==
    \/ \E query \in StoreFailsQueries : GetAnalytics(1, UserA, query)
    \/ \E query \in StoreFailsQueries, fetch \in DOMAIN AnalyticsFetches :
          GetAnalyticsStoreFails(1, UserA, query, fetch)

SpecStoreFails == InitAnalytics /\ [][StoreFailsNext]_vars

(***************************************************************************)
(* Reads of a day that has two records: concurrent add-water and log-sleep *)
(* requests of one user for today, and the reads of the week and of the    *)
(* summary.                                                                *)
(***************************************************************************)
MaxDuplicates == 2      \* documents of a collection in a run of this kind

DuplicatesWaterBody == [amountMl |-> Num(250), date |-> NoDate]

DuplicatesSleepBody ==
    SleepBody(LocalMidnight(DstDay) + 9, Num(480), Num(80), Num(20), Num(30), "")

\* The bounds of a run: the documents created, and the calls for one day
DuplicatesBounded(docs, pc) ==
    /\ Cardinality(docs) + Cardinality({r \in Slots : req[r].pc = pc}) < MaxDuplicates
    /\ \A k \in DOMAIN passedMl : passedMl[k] <= MaxRaceMl
    /\ \A k \in DOMAIN sleepCalls :
          Len(sleepCalls[k]) + Cardinality({r \in Slots : req[r].pc = "sleepSave"})
             < MaxSleepCalls

DuplicatesNext ==
    \/ \E r \in Slots :
          /\ DuplicatesBounded(waterLogs, "waterSave")
          /\ PostWaterFind(r, UserA, DuplicatesWaterBody)
    \/ \E r \in Slots : PostWaterSave(r)
    \/ \E r \in Slots :
          /\ DuplicatesBounded(sleepEntries, "sleepSave")
          /\ PostSleepFind(r, UserA, DuplicatesSleepBody)
    \/ \E r \in Slots : PostSleepSave(r)
    \/ \E r \in Slots : GetWaterWeek(r, UserA, NoDate)
    \/ \E r \in Slots : GetSleepWeek(r, UserA, NoDate)
    \/ \E r \in Slots : GetAnalytics(r, UserA, NoRange)

SpecDuplicates == InitRegistered /\ [][DuplicatesNext]_vars

(***************************************************************************)
(* Screen-time syncs of two users, one at a time and concurrently.         *)
(***************************************************************************)
\* Entries of two apps on a day and of one of them on the next day, with a
\* name to trim and a usage sent as a numeric string, and entries that the
\* validators reject
MapsEntry    == ScreenTimeEntry("com.maps", "Maps", Num(1000), "2026-03-08")
MapsAgain    == ScreenTimeEntry(" com.maps ", " Maps", Str(2000), "2026-03-08")
MailEntry    == ScreenTimeEntry("com.mail", "Mail", Num(0), "2026-03-08")
MapsNextDay  == ScreenTimeEntry("com.maps", "Atlas", Num(3000), "2026-03-09")
NegativeUsage == ScreenTimeEntry("com.maps", "Maps", Num(-1), "2026-03-08")
NoNameNoDate == ScreenTimeEntry("com.mail", "  ", Num(1000), "08/03/2026")

\* The arrays of the sync calls: one entry, two entries of different keys,
\* two entries of one key, an array with an entry that is rejected, and an
\* empty array
SyncArrays ==
    {<<MapsEntry>>, <<MapsAgain>>, <<MailEntry, MapsNextDay>>,
     <<MapsEntry, MapsAgain>>, <<MailEntry, NegativeUsage>>, <<NoNameNoDate>>,
     << >>}

SyncNext ==
    \/ \E r \in Slots, entries \in SyncArrays : SyncStart(r, UserA, entries)
    \/ SyncStart(1, UserB, <<MapsEntry>>)
    \/ \E r \in Slots : SyncWrite(r)

SpecSync == InitRegistered /\ [][SyncNext]_vars

(***************************************************************************)
(* The screen-time service of one device over several days.                *)
(***************************************************************************)
MaxCacheDays == 2       \* the days that pass after the first call

CacheNext ==
    \/ \E rangeInDays \in ScreenRanges, forceRefresh \in BOOLEAN, hasPermission \in BOOLEAN :
          GetScreenTimeData(1, rangeInDays, forceRefresh, hasPermission)
    \/ /\ now + TickHours < LocalMidnight(DstDay + MaxCacheDays + 1)
       /\ Tick

SpecCache == InitRegistered /\ [][CacheNext]_vars

(***************************************************************************)
(* The dashboard and the weekly water read of one user, in a zone without  *)
(* daylight saving, for water goals that the updates accept: add-water on  *)
(* some days of a week, goal updates, both reads.                          *)
(***************************************************************************)
\* The values of PUT /api/goals/type/water: a goal of 3 litres, of none and
\* of less than none
AgreeGoalValues == {Num(3), Num(0), Num(-1)}

AgreeNext ==
    \/ /\ WaterBounded(UserA, [amountMl |-> Num(3000), date |-> NoDate],
                       MaxWeekLogs, MaxWeekMl)
       /\ PostWaterFind(1, UserA, [amountMl |-> Num(3000), date |-> NoDate])
    \/ PostWaterSave(1)
    \/ \E value \in AgreeGoalValues : PutGoalByType(1, UserA, "water", value)
    \/ GetWaterWeek(1, UserA, NoDate)
    \/ GetDashboard(1, UserA)
    \/ Tick

SpecAgree == InitRegistered /\ [][AgreeNext]_vars

(***************************************************************************)
(* The analytics summary for goals of any value: the stores of the         *)
(* analytics summary, updates of the water and the sleep goal to none and  *)
(* to less than none, and the summary for several ranges.                  *)
(***************************************************************************)
BoundsGoalValues == {Num(0), Num(-1)}
BoundsQueries == {NoRange, RangeDays(3), RangeDays(-2)}

BoundsNext ==
    \/ \E query \in BoundsQueries : GetAnalytics(1, UserA, query)
    \/ \E type \in {"water", "sleep"}, value \in BoundsGoalValues :
          PutGoalByType(1, UserA, type, value)

SpecBounds == InitAnalytics /\ [][BoundsNext]_vars

(***************************************************************************)
(* A user without its default goals: the reads and the add-water request   *)
(* of a user whose seeding stopped after some of the three documents.      *)
(***************************************************************************)
MaxFallbackLogs == 2      \* WaterLog documents of a run
MaxFallbackMl   == 250    \* no further add-water on a record above this amount

\* The second user was saved and Goal.insertMany failed after k documents.
InitFallback ==
    /\ now = LocalMidnight(DstDay)
    /\ dstShift = 0
    /\ users = {[id |-> UserA, email |-> "a@x.io"], [id |-> UserB, email |-> "b@x.io"]}
    /\ registered = {UserA}
    /\ \E k \in 0 .. (Len(DefaultGoals) - 1) :
          /\ goals = {GoalDoc(UserA + i, UserA, DefaultGoals[i]) : i \in 1 .. 3}
                     \cup {GoalDoc(UserB + i, UserB, DefaultGoals[i]) : i \in 1 .. k}
          /\ nextId = UserB + k + 1
    /\ waterLogs = {}
    /\ sleepEntries = {}
    /\ req = [r \in Slots |-> Idle]
    /\ passedMl = << >>
    /\ sleepCalls = << >>
    /\ screenTimes = {}
    /\ lastSynced = << >>
    /\ screenCache = EmptyCache

FallbackNext ==
    \/ /\ WaterBounded(UserB, [amountMl |-> Num(250), date |-> NoDate],
                       MaxFallbackLogs, MaxFallbackMl)
       /\ PostWaterFind(1, UserB, [amountMl |-> Num(250), date |-> NoDate])
    \/ PostWaterSave(1)
    \/ PutGoalByType(1, UserB, "water", Num(4))
    \/ GetWaterToday(1, UserB)
    \/ GetWaterWeek(1, UserB, NoDate)
    \/ GetDashboard(1, UserB)
    \/ GetAnalytics(1, UserB, NoRange)
    \/ Tick

SpecFallback == InitFallback /\ [][FallbackNext]_vars

(***************************************************************************)
(* The start of the week: the weekly reads of the server and of the        *)
(* client at any hour of any day, in a zone with or without daylight       *)
(* saving.                                                                 *)
(***************************************************************************)
InitWeekStart ==
    /\ now \in {LocalMidnight(DstDay) + h : h \in 0 .. (HoursPerDay - 1)}
    /\ dstShift \in DstShifts
    /\ users = {[id |-> UserA, email |-> "a@x.io"], [id |-> UserB, email |-> "b@x.io"]}
    /\ registered = {UserA, UserB}
    /\ goals = {GoalDoc(UserA + i, UserA, DefaultGoals[i]) : i \in 1 .. 3}
               \cup {GoalDoc(UserB + i, UserB, DefaultGoals[i]) : i \in 1 .. 3}
    /\ waterLogs = {StoredWaterLog(UserA, DstDay + 1)}
    /\ sleepEntries = {StoredSleepEntry(UserA, DstDay + 1)}
    /\ nextId = FirstFreeId + 4 * (DstDay + 7)
    /\ req = [r \in Slots |-> Idle]
    /\ passedMl = << >>
    /\ sleepCalls = << >>
    /\ screenTimes = {}
    /\ lastSynced = << >>
    /\ screenCache = EmptyCache

WeekStartNext ==
    \/ GetWaterWeek(1, UserA, NoDate)
    \/ GetSleepWeek(1, UserA, NoDate)
    \/ GetClientWeeklySleep(1, UserA)
    \/ Tick

SpecWeekStart == InitWeekStart /\ [][WeekStartNext]_vars

(***************************************************************************)
(* Validation: add-water, sleep log and sleep update requests with values  *)
(* in and out of range, for a user with a log and an entry of today.       *)
(***************************************************************************)
MaxValidateLogs  == 2       \* WaterLog documents of a run
MaxValidateMl    == 2000    \* no further add-water on a record above this amount
MaxValidateCalls == 1       \* accepted sleep log calls of a run

InitValidate ==
    /\ now = LocalMidnight(DstDay) + 9
    /\ dstShift = 0
    /\ users = {[id |-> UserA, email |-> "a@x.io"], [id |-> UserB, email |-> "b@x.io"]}
    /\ registered = {UserA, UserB}
    /\ goals = {GoalDoc(UserA + i, UserA, DefaultGoals[i]) : i \in 1 .. 3}
               \cup {GoalDoc(UserB + i, UserB, DefaultGoals[i]) : i \in 1 .. 3}
    /\ waterLogs = {StoredWaterLog(UserA, DstDay)}
    /\ sleepEntries = {StoredSleepEntry(UserA, DstDay)}
    /\ nextId = FirstFreeId + 4 * (DstDay + 7)
    /\ req = [r \in Slots |-> Idle]
    /\ passedMl = << >>
    /\ sleepCalls = << >>
    /\ screenTimes = {}
    /\ lastSynced = << >>
    /\ screenCache = EmptyCache

ValidateWaterBodies ==
    [amountMl : {Num(-250), Num(-1), Num(250)}, date : {NoDate, LocalMidnight(DstDay + 1)}]

\* Bodies with all values in range, and bodies with one value out of range
ValidateSleepBodies ==
    LET date == LocalMidnight(DstDay) + 9
    IN  {SleepBody(date, Num(480), Num(0), Num(100), Num(30), ""),
         SleepBody(date, Num(-1), Num(80), Num(20), Num(30), ""),
         SleepBody(date, Num(-480), Num(80), Num(20), Num(30), "")}
        \cup {SleepBody(date, Num(480), p, Num(20), Num(30), "") : p \in {Num(-1), Num(101)}}
        \cup {SleepBody(date, Num(480), Num(80), p, Num(30), "") : p \in {Num(-1), Num(101)}}
        \cup {SleepBody(date, Num(480), Num(80), Num(20), p, "") : p \in {Num(-1), Num(101)}}

ValidateSleepUpdates ==
    {[durationMinutes |-> d, restedPercent |-> Absent, remPercent |-> Absent,
      deepSleepPercent |-> Absent, notes |-> Absent] : d \in {Num(-1), Num(0)}}
    \cup {[durationMinutes |-> Absent, restedPercent |-> p, remPercent |-> Absent,
           deepSleepPercent |-> Absent, notes |-> Absent] : p \in {Num(-1), Num(100), Num(101)}}
    \cup {[durationMinutes |-> Absent, restedPercent |-> Absent, remPercent |-> p,
           deepSleepPercent |-> Absent, notes |-> Absent] : p \in {Num(-1), Num(101)}}
    \cup {[durationMinutes |-> Num(300), restedPercent |-> Absent, remPercent |-> Absent,
           deepSleepPercent |-> p, notes |-> Absent] : p \in {Num(-1), Num(101)}}

\* The accepted calls of a run are bounded; the rejected ones are not.
ValidateBounded(body) ==
    /\ "amountMl" \in DOMAIN body /\ IsIntMin(body.amountMl, 1)
          => WaterBounded(UserA, body, MaxValidateLogs, MaxValidateMl)
    /\ "durationMinutes" \in DOMAIN body /\ PostSleepError(body) = ""
          => /\ \A r \in Slots : req[r].pc # "sleepSave"
             /\ \A k \in DOMAIN sleepCalls : Len(sleepCalls[k]) < MaxValidateCalls

ValidateNext ==
    \/ \E body \in ValidateWaterBodies :
          ValidateBounded(body) /\ PostWaterFind(1, UserA, body)
    \/ PostWaterSave(1)
    \/ \E body \in ValidateSleepBodies :
          ValidateBounded(body) /\ PostSleepFind(1, UserA, body)
    \/ PostSleepSave(1)
    \/ \E e \in sleepEntries, body \in ValidateSleepUpdates : PutSleep(1, UserA, e.id, body)

SpecValidate == InitValidate /\ [][ValidateNext]_vars

(***************************************************************************)
(* Concurrent add-water requests of a user whose record of today exists.   *)
(***************************************************************************)
MaxIncrementMl == 700   \* the sum of the amounts of the requests of a run

IncrementAmounts == {100, 250}

\* The sum of the amounts of the requests that have been answered and of
\* those in flight
IncrementsStarted ==
    (IF passedMl = << >> THEN 0 ELSE passedMl[<<UserA, StartOfDay(now)>>])
    + (IF req[1].pc = "waterSave" THEN req[1].amountMl.val ELSE 0)
    + (IF req[2].pc = "waterSave" THEN req[2].amountMl.val ELSE 0)

IncrementNext ==
    \/ \E r \in Slots, amountMl \in IncrementAmounts :
          /\ IncrementsStarted + amountMl <= MaxIncrementMl
          /\ PostWaterFind(r, UserA, [amountMl |-> Num(amountMl), date |-> NoDate])
    \/ \E r \in Slots : PostWaterSave(r)

SpecIncrement == InitValidate /\ [][IncrementNext]_vars

(***************************************************************************)
(* Ownership: two users with goals, a water log and a sleep entry each;    *)
(* the first user sends every request with every id, its own, the other    *)
(* user's and one that no record has.                                      *)
(***************************************************************************)
CustomGoal(id, u) ==
    [id |-> id, userId |-> u, type |-> "custom", label |-> "Meditate", value |-> 10,
     unit |-> "min/day", isDefault |-> FALSE]

InitOwner ==
    /\ now = LocalMidnight(DstDay) + 9
    /\ dstShift = 0
    /\ users = {[id |-> UserA, email |-> "a@x.io"], [id |-> UserB, email |-> "b@x.io"]}
    /\ registered = {UserA, UserB}
    /\ goals = {GoalDoc(UserA + i, UserA, DefaultGoals[i]) : i \in 1 .. 3}
               \cup {GoalDoc(UserB + i, UserB, DefaultGoals[i]) : i \in 1 .. 3}
               \cup {CustomGoal(FirstFreeId, UserA), CustomGoal(FirstFreeId + 1, UserB)}
    /\ waterLogs = {StoredWaterLog(UserA, DstDay), StoredWaterLog(UserB, DstDay)}
    /\ sleepEntries = {StoredSleepEntry(UserA, DstDay), StoredSleepEntry(UserB, DstDay)}
    /\ nextId = FirstFreeId + 4 * (DstDay + 7)
    /\ req = [r \in Slots |-> Idle]
    /\ passedMl = << >>
    /\ sleepCalls = << >>
    /\ screenTimes = {}
    /\ lastSynced = << >>
    /\ screenCache = EmptyCache

\* The ids of the requests on a collection: the ids of its records, of both
\* users, and an id that no record has
OwnerIds(docs) == {d.id : d \in docs} \cup {nextId}

\* The water goals and the custom goals
OwnerGoals == {g \in goals : g.type \in {"water", "custom"}}

OwnerGoalUpdates ==
    {[value |-> Num(2), label |-> Text("Hydrate"), unit |-> Text("cups")],
     [value |-> Text("two"), label |-> Absent, unit |-> Absent]}
OwnerWaterBody == [amountMl |-> Num(250), date |-> NoDate]
OwnerWaterUpdates == {[amountMl |-> Num(100)], [amountMl |-> Num(-1)]}
OwnerSleepBody == SleepBody(LocalMidnight(DstDay) + 9, Num(480), Num(80), Num(20), Num(30), "")

OwnerNext ==
    \/ \E id \in OwnerIds(OwnerGoals), body \in OwnerGoalUpdates : PutGoal(1, UserA, id, body)
    \/ \E type \in {"water", "custom"} : PutGoalByType(1, UserA, type, Num(2))
    \/ \E id \in OwnerIds(OwnerGoals) : DeleteGoal(1, UserA, id)
    \/ /\ passedMl = << >>
       /\ PostWaterFind(1, UserA, OwnerWaterBody)
    \/ PostWaterSave(1)
    \/ \E id \in OwnerIds(waterLogs), body \in OwnerWaterUpdates : PutWater(1, UserA, id, body)
    \/ /\ sleepCalls = << >>
       /\ PostSleepFind(1, UserA, OwnerSleepBody)
    \/ PostSleepSave(1)
    \/ \E id \in OwnerIds(sleepEntries), body \in SleepUpdates : PutSleep(1, UserA, id, body)
    \/ \E id \in OwnerIds(sleepEntries) : DeleteSleep(1, UserA, id)

SpecOwner == InitOwner /\ [][OwnerNext]_vars

(***************************************************************************)
(* Claims about the water log.                                             *)
(***************************************************************************)
WaterLogsOf(u, day) == {l \in waterLogs : l.userId = u /\ DayOf(l.date) = day}

\* C1: once a sequence of accepted add-water calls has been answered, each
\* (user, day) that received calls has exactly one WaterLog, whose amountMl is
\* the sum of the amounts passed for that day, and no other day has a log.
C1_WaterLogIsSumOfAmounts ==
    Free(1) =>
        /\ \A k \in DOMAIN passedMl :
              /\ Cardinality(WaterLogsOf(k[1], DayOf(k[2]))) = 1
              /\ \A l \in WaterLogsOf(k[1], DayOf(k[2])) : l.amountMl = passedMl[k]
        /\ \A l \in waterLogs : <<l.userId, l.date>> \in DOMAIN passedMl

\* C2: in every state of every interleaving of add-water requests there is at
\* most one WaterLog per (user, calendar day).
C2_AtMostOneWaterLogPerDay ==
    \A l1, l2 \in waterLogs :
        (l1.userId = l2.userId /\ DayOf(l1.date) = DayOf(l2.date)) => l1.id = l2.id

(***************************************************************************)
(* Claims about the sleep entries.                                         *)
(***************************************************************************)
SleepEntriesOf(u, day) == {e \in sleepEntries : e.userId = u /\ DayOf(e.date) = day}

LastCall(k) == sleepCalls[k][Len(sleepCalls[k])]

\* C3: once a sequence of sleep-entry log calls has been answered, each
\* (user, day) that was logged has exactly one SleepEntry and each of its five
\* fields is that of the payload of the last call for that day.
C3_SleepEntryIsLastPayload ==
    Free(1) =>
        \A k \in DOMAIN sleepCalls :
            /\ Cardinality(SleepEntriesOf(k[1], DayOf(k[2]))) = 1
            /\ \A e \in SleepEntriesOf(k[1], DayOf(k[2])) :
                  \A f \in DOMAIN LastCall(k) : e[f] = LastCall(k)[f]

\* A day was logged twice, with payloads that differ in every field.
C3_Witness ==
    /\ Free(1)
    /\ \E k \in DOMAIN sleepCalls :
          /\ Len(sleepCalls[k]) = 2
          /\ \A f \in DOMAIN LastCall(k) : sleepCalls[k][1][f] # sleepCalls[k][2][f]
          /\ SleepEntriesOf(k[1], DayOf(k[2])) # {}

\* C4: in every state of every interleaving of sleep-entry log, update and
\* delete requests there is at most one SleepEntry per (user, calendar day).
C4_AtMostOneSleepEntryPerDay ==
    \A e1, e2 \in sleepEntries :
        (e1.userId = e2.userId /\ DayOf(e1.date) = DayOf(e2.date)) => e1.id = e2.id

(***************************************************************************)
(* Claims about the weekly reads.                                          *)
(***************************************************************************)
\* The calendar day a week starts on: the Sunday of the current week, or the
\* day of the start that was supplied.
FirstDay(start) == IF start = NoDate THEN DayOf(now) - (DayOf(now) % 7) ELSE DayOf(start)

\* The days of that week that are not after today, counted from 0.
EligibleDays(start) == {i \in 0 .. 6 : FirstDay(start) + i <= DayOf(now)}

\* C5: the weekly water read and the weekly sleep read return 7 entries, the
\* i-th for the i-th calendar day from the week start, whatever number of
\* days of the week have a stored record; the entry of a day with a record
\* carries the stored amountMl or durationMinutes, the entry of a day without
\* a record carries 0.
C5_WeeklySeriesOfSevenDays ==
    \A u \in {UserA, UserB}, start \in WeekStarts :
        LET water == WaterWeek(u, start).entries
            sleep == SleepWeek(u, start).entries
        IN  /\ DOMAIN water = 1 .. 7
            /\ DOMAIN sleep = 1 .. 7
            /\ \A i \in 1 .. 7 :
                  LET day == FirstDay(start) + i - 1
                  IN  /\ water[i].date = LocalMidnight(day)
                      /\ sleep[i].date = LocalMidnight(day)
                      /\ \A l \in WaterLogsOf(u, day) : water[i].amountMl = l.amountMl
                      /\ WaterLogsOf(u, day) = {} => water[i].amountMl = 0
                      /\ \A e \in SleepEntriesOf(u, day) :
                            sleep[i].durationMinutes = e.durationMinutes
                      /\ SleepEntriesOf(u, day) = {} => sleep[i].durationMinutes = 0

\* In the week of a change of the zone offset, on its fourth day, the weekly
\* sleep read of the current week has answered for a user who has logged
\* water on three days of the week and sleep on the other four.
C5_Witness ==
    /\ dstShift # 0
    /\ GetDay(now) = 3
    /\ req[1].pc = "done"
    /\ req[1].op = "getSleepWeek"
    /\ req[1].body.startDate = LocalMidnight(DstDay - (DstDay % 7))
    /\ Cardinality({i \in 1 .. 7 : req[1].body.entries[i].durationMinutes > 0}) = 4
    /\ Cardinality({i \in 1 .. 7 : WaterWeek(UserA, NoDate).entries[i].amountMl > 0}) = 3

\* C6: in the weekly water read and in the dashboard summary, a day after
\* today is not marked goal-met, is not counted in the goal-met count and is
\* not counted in the count of eligible days, whatever amount is stored for
\* it.
C6_FutureDaysNotCounted ==
    /\ \A start \in WeekStarts :
          LET week == WaterWeek(UserA, start)
              met  == {i \in 0 .. 6 : week.entries[i + 1].goalMet}
          IN  /\ met \subseteq EligibleDays(start)
              /\ week.goalMetCount = Cardinality(met)
              /\ PastDays(week.entries) <= Cardinality(EligibleDays(start))
    /\ DashboardMetDays(UserA) \subseteq EligibleDays(NoDate)
    /\ DashboardWater(UserA).weeklyGoalMetCount <= Cardinality(EligibleDays(NoDate))
    /\ DashboardPastDays <= Cardinality(EligibleDays(NoDate))

\* C7: in the weekly water read and in the dashboard summary, the weekly goal
\* is met iff the goal-met count equals the number of eligible days and that
\* number is greater than 0.
C7_WeeklyGoalMetIffAllEligibleDaysMet ==
    /\ \A start \in WeekStarts :
          LET week     == WaterWeek(UserA, start)
              eligible == Cardinality(EligibleDays(start))
          IN  week.weeklyGoalMet <=> (week.goalMetCount = eligible /\ eligible > 0)
    /\ LET water    == DashboardWater(UserA)
           eligible == Cardinality(EligibleDays(NoDate))
       IN  water.weeklyGoalMet <=> (water.weeklyGoalMetCount = eligible /\ eligible > 0)

(***************************************************************************)
(* Claims about the goals.                                                 *)
(***************************************************************************)
GoalsOfType(u, type) == {g \in goals : g.userId = u /\ g.type = type}

\* The step answers a DELETE /api/goals/:id for goal g in slot 1.
AnswersDeleteOf(g) ==
    /\ req'[1] # req[1]
    /\ req'[1].pc = "done"
    /\ req'[1].op = "deleteGoal"
    /\ req'[1].id = g.id

CannotDeleteDefault ==
    /\ req'[1].status = 400
    /\ req'[1].body = [error |-> "Cannot delete default goals"]

\* C8, as the claim states it: the deletion of any goal whose is-default flag
\* is set, whoever asks for it, is answered 400 'Cannot delete default goals'
\* and leaves the goal in the store unchanged.
C8_DeleteDefaultGoalFails ==
    [][\A g \in goals :
          (g.isDefault /\ AnswersDeleteOf(g)) => (CannotDeleteDefault /\ g \in goals')]_vars

\* C8, amended: the deletion of a goal whose is-default flag is set, asked for
\* by the user who owns the goal, is answered 400 'Cannot delete default
\* goals' and leaves the goal in the store unchanged; asked for by any user,
\* it leaves the goal in the store unchanged.
C8_DeleteDefaultGoalByOwnerFails ==
    [][\A g \in goals :
          (g.isDefault /\ AnswersDeleteOf(g)) =>
              /\ g \in goals'
              /\ req'[1].userId = g.userId => CannotDeleteDefault]_vars

\* The owner of a default goal has asked for its deletion.
C8_Witness ==
    /\ req[1].pc = "done"
    /\ req[1].op = "deleteGoal"
    /\ req[1].status = 400
    /\ \E g \in goals : g.id = req[1].id /\ g.userId = req[1].userId /\ g.isDefault

C10_UserHasDefaultGoals ==
    \A x \in users :
        /\ \A i \in 1 .. Len(DefaultGoals) :
              \E g \in GoalsOfType(x.id, DefaultGoals[i].type) : g.isDefault
        /\ Cardinality({g \in goals : g.userId = x.id /\ g.isDefault}) = Len(DefaultGoals)

\* C11: once createDefaultGoals has run for a user, whatever goals the user
\* had when it ran and however often it ran, the user has exactly one default
\* goal of each of exercise, water and sleep.
C11_SeededUserHasOneDefaultOfEach ==
    \A u \in registered : \A i \in 1 .. Len(DefaultGoals) :
        Cardinality({g \in GoalsOfType(u, DefaultGoals[i].type) : g.isDefault}) = 1


(***************************************************************************)
(* Claims about the analytics summary.                                     *)
(***************************************************************************)
AnalyticsAnswered == req[1].pc = "done" /\ req[1].op = "getAnalytics"
ClientAnswered == req[1].pc = "done" /\ req[1].op = "getClientSummary"

\* The calendar days that an answered summary reports on: as many days as
\* its arrays have entries, the last of them being the day of the answer.
ReportedDays(a) ==
    (DayOf(a.at) - Len(a.body.sleep.days) + 1) .. DayOf(a.at)

\* The calendar days of the week of the instant of an answer
WeekOf(a) == (DayOf(a.at) - GetDay(a.at)) .. (DayOf(a.at) - GetDay(a.at) + 6)

\* What the user has stored for a calendar day, 0 without a record
MinutesOn(u, day) ==
    LET entry == Earliest(SleepEntriesOf(u, day))
    IN  IF entry # NoDoc THEN entry.durationMinutes ELSE 0

MlOn(u, day) ==
    LET log == Earliest(WaterLogsOf(u, day))
    IN  IF log # NoDoc THEN log.amountMl ELSE 0

\* The mean, in hundredths, of the display hours of a set of days
MeanHours(u, days) ==
    LET n == Cardinality(days)
        RECURSIVE Total(_)
        Total(ds) == IF ds = {} THEN 0
                     ELSE LET d == CHOOSE x \in ds : TRUE
                          IN  Hours10(MinutesOn(u, d)) + Total(ds \ {d})
    IN  IF n = 0 THEN 0 ELSE Round(10 * Total(days), n)

\* C12: the sleep average of a summary, the server's and the client's, is
\* the mean of the display hours of the days of its range whose stored
\* duration is not zero, and 0 when the range has no such day.
C12_SleepAverageOverNonZeroDays ==
    /\ AnalyticsAnswered =>
         LET a == req[1]
         IN  a.body.sleep.average =
                MeanHours(a.userId, {d \in ReportedDays(a) : MinutesOn(a.userId, d) > 0})
    /\ ClientAnswered =>
         LET a == req[1]
         IN  a.body.sleep.average =
                MeanHours(a.userId, {d \in WeekOf(a) : MinutesOn(a.userId, d) > 0})

\* The number of days that a request asks for: 7 unless the query names a
\* number of days.
RequestedDays(query) == IF query.type = "days" THEN query.val ELSE 7

\* The elapsed days of an answered summary: none for a requested range that
\* is not positive, else the days that the summary reports on.
ElapsedDayCount(a) ==
    IF RequestedDays(a.query) <= 0 THEN 0 ELSE Len(a.body.sleep.days)

\* C13: weeklyCompletionRatePercent is round(100 * (waterMetCount +
\* sleepMetCount) / (2 * elapsedDayCount)), and 0 when elapsedDayCount is 0,
\* which it is for a requested range that is not positive.
C13_CompletionRatePercent ==
    AnalyticsAnswered =>
        LET a     == req[1]
            count == ElapsedDayCount(a)
        IN  a.body.goals.weeklyCompletionRatePercent =
               IF count = 0 THEN 0
               ELSE Round(100 * (a.body.water.goalMetCount + a.body.sleep.goalMetCount),
                          2 * count)

(***************************************************************************)
(* Claims about the goals that the reads fall back on.                     *)
(***************************************************************************)
HasGoal(u, type) == GoalsOfType(u, type) # {}

\* The answers that carry dailyGoalMl
AnswersDailyGoalMl ==
    /\ req[1].pc = "done"
    /\ req[1].status \in {200, 201}
    /\ req[1].op \in {"getWaterToday", "getWaterWeek", "postWater", "getDashboard"}

\* C14: for a user without a water goal the weekly water read, the today
\* read, the add-water answer and the dashboard carry dailyGoalMl 3000 and
\* the analytics summary dailyGoalLiters 3; for a user without a sleep goal
\* the analytics summary carries goalHours 8.
C14_GoalFallbacks ==
    /\ AnswersDailyGoalMl /\ ~HasGoal(UserB, "water")
          => req[1].body.dailyGoalMl = 3000
    /\ AnalyticsAnswered /\ ~HasGoal(req[1].userId, "water")
          => req[1].body.water.dailyGoalLiters = 3
    /\ AnalyticsAnswered /\ ~HasGoal(req[1].userId, "sleep")
          => req[1].body.sleep.goalHours = 8

C14_Witness ==
    /\ AnalyticsAnswered
    /\ ~HasGoal(UserB, "water") /\ ~HasGoal(UserB, "sleep")
    /\ req[1].userId = UserB
    /\ req[1].body.water.dailyGoalLiters = 3
    /\ req[1].body.sleep.goalHours = 8
    /\ \E l \in waterLogs : l.userId = UserB

(***************************************************************************)
(* Claims about the days of the analytics summary.                         *)
(***************************************************************************)
\* The weekdays of n consecutive calendar days from day first on
Weekdays(first, n) == [k \in 1 .. n |-> (first + k - 1) % 7]

\* C15: with the default range the day labels of a summary start with the
\* Sunday of the current week and follow the calendar from there.
C15_DefaultRangeStartsOnSunday ==
    AnalyticsAnswered /\ req[1].query = NoRange =>
        LET a      == req[1]
            sunday == DayOf(a.at) - GetDay(a.at)
        IN  /\ a.body.sleep.days = Weekdays(sunday, Len(a.body.sleep.days))
            /\ a.body.water.days = Weekdays(sunday, Len(a.body.water.days))

(***************************************************************************)
(* Claims about the start of the week.                                     *)
(***************************************************************************)
\* start is the local midnight of a Sunday that is the day of the instant
\* ref or one of the 6 days before it.
IsWeekStartOf(start, ref) ==
    /\ start = LocalMidnight(DayOf(start))
    /\ GetDay(start) = 0
    /\ DayOf(start) <= DayOf(ref)
    /\ DayOf(ref) - DayOf(start) <= 6

\* The dates of 7 entries are the local midnights of the day of start and of
\* the 6 days that follow.
AreBucketsOf(entries, start) ==
    /\ DOMAIN entries = 1 .. 7
    /\ \A i \in 1 .. 7 : entries[i].date = LocalMidnight(DayOf(start) + i - 1)

\* C16: at every instant the default week start of the server's weekly
\* reads and of the client's getStartOfWeek is the local midnight of a
\* Sunday, not after the day of the instant and at most 6 days before it,
\* and the 7 buckets are at the local midnights of that day and of the 6 days
\* that follow.
C16_WeekStartIsSundayMidnight ==
    /\ IsWeekStartOf(WeekStartDate(NoDate), now)
    /\ AreBucketsOf(WaterWeek(UserA, NoDate).entries, WeekStartDate(NoDate))
    /\ AreBucketsOf(SleepWeek(UserA, NoDate).entries, WeekStartDate(NoDate))
    /\ IsWeekStartOf(GetStartOfWeek, now)
    /\ AreBucketsOf(ClientWeeklySleep(UserA), GetStartOfWeek)

\* C17: the four arrays of a summary have the same length, the completion
\* percentage has twice that length as its denominator, and the entries are
\* those of the consecutive calendar days that end today: none is the entry
\* of a day after today.
C17_OnlyElapsedDaysReported ==
    AnalyticsAnswered =>
        LET a     == req[1]
            n     == Len(a.body.sleep.days)
            first == DayOf(a.at) - n + 1
        IN  /\ Len(a.body.sleep.hours) = n
            /\ Len(a.body.water.days) = n
            /\ Len(a.body.water.liters) = n
            /\ a.body.sleep.days = Weekdays(first, n)
            /\ a.body.water.days = Weekdays(first, n)
            /\ \A k \in 1 .. n :
                  /\ first + k - 1 <= DayOf(a.at)
                  /\ a.body.sleep.hours[k] = Hours10(MinutesOn(a.userId, first + k - 1))
                  /\ a.body.water.liters[k] = Liters10(MlOn(a.userId, first + k - 1))
            /\ n > 0 => a.body.goals.weeklyCompletionRatePercent =
                          Round(100 * (a.body.water.goalMetCount
                                       + a.body.sleep.goalMetCount), 2 * n)
            /\ n = 0 => a.body.goals.weeklyCompletionRatePercent = 0

\* A summary of 3 days has answered on a day with a sleep entry, for a user
\* who has records for later days.
C17_Witness ==
    /\ AnalyticsAnswered
    /\ req[1].query = RangeDays(3)
    /\ Len(req[1].body.sleep.days) = 3
    /\ req[1].body.sleep.hours[3] > 0
    /\ \E e \in sleepEntries : e.userId = UserA /\ DayOf(e.date) > DayOf(req[1].at)
    /\ \E l \in waterLogs : l.userId = UserA /\ DayOf(l.date) > DayOf(req[1].at)

(***************************************************************************)
(* Claims about the goals completed today.                                 *)
(***************************************************************************)
\* 1 if the user has a record of the day among docs whose value is at least
\* the threshold, else 0
MetOn(docs, value, threshold) ==
    IF \E d \in docs : value[d] >= threshold THEN 1 ELSE 0

\* C18: completedToday is the number of the metrics water and sleep for
\* which the user has a record of today whose stored amountMl is at least
\* the goal litres times 1000, or whose stored durationMinutes is at least
\* the goal hours times 60; it is 0, 1 or 2, whatever is stored for other
\* days.
C18_CompletedToday ==
    AnalyticsAnswered =>
        LET a     == req[1]
            today == DayOf(a.at)
            logs    == WaterLogsOf(a.userId, today)
            entries == SleepEntriesOf(a.userId, today)
        IN  /\ a.body.goals.completedToday =
                  MetOn(logs, [l \in logs |-> l.amountMl],
                        a.body.water.dailyGoalLiters * 1000)
                  + MetOn(entries, [e \in entries |-> e.durationMinutes],
                          a.body.sleep.goalHours * 60)
            /\ a.body.goals.completedToday \in {0, 1, 2}

\* A summary has answered 1 on a day with a log of 2950 ml, which shows as
\* 3.0 litres, and a sleep of 420 minutes, for goals of 3 litres and 7 hours.
C18_Witness ==
    /\ AnalyticsAnswered
    /\ req[1].body.goals.completedToday = 1
    /\ req[1].body.sleep.goalHours = 7
    /\ \E l \in WaterLogsOf(UserA, DayOf(req[1].at)) : l.amountMl = 2950
    /\ \E e \in SleepEntriesOf(UserA, DayOf(req[1].at)) : e.durationMinutes = 420

(***************************************************************************)
(* Claims about validation.                                                *)
(***************************************************************************)
\* A value that is present and below 0, or below min or above max
IsBelow(v, min) == v # Absent /\ v.val < min
IsOutside(v, min, max) == v # Absent /\ (v.val < min \/ v.val > max)

\* A sleep body with a negative duration or a percentage outside 0 .. 100
IsOutOfRange(body) ==
    \/ IsBelow(body.durationMinutes, 0)
    \/ IsOutside(body.restedPercent, 0, 100)
    \/ IsOutside(body.remPercent, 0, 100)
    \/ IsOutside(body.deepSleepPercent, 0, 100)

\* The request is answered with a validation error and no record is
\* created or modified.
RejectedUnchanged ==
    /\ req'[1].pc = "done"
    /\ req'[1].status = 400
    /\ waterLogs' = waterLogs
    /\ sleepEntries' = sleepEntries

\* C19: an add-water request with a negative amount, and a sleep log or a
\* sleep update with a negative duration or with a percentage outside
\* 0 .. 100, is answered with a validation error in the step that receives
\* it, and that step leaves the water logs and the sleep entries as they were.
C19_OutOfRangeRejected ==
    [][/\ \A body \in ValidateWaterBodies :
             IsBelow(body.amountMl, 0) /\ PostWaterFind(1, UserA, body)
                => RejectedUnchanged
       /\ \A body \in ValidateSleepBodies :
             IsOutOfRange(body) /\ PostSleepFind(1, UserA, body)
                => RejectedUnchanged
       /\ \A e \in sleepEntries, body \in ValidateSleepUpdates :
             IsOutOfRange(body) /\ PutSleep(1, UserA, e.id, body)
                => RejectedUnchanged]_vars

\* A sleep update with a duration in range and a percentage out of range has
\* been rejected, after an add-water request and a sleep update were accepted.
C19_Witness ==
    /\ req[1] = Error("putSleep", 400, "Deep sleep percent must be 0-100")
    /\ \E e \in sleepEntries : e.durationMinutes = 0 /\ e.deepSleepPercent = 30
    /\ \E l \in waterLogs : l.amountMl = StoredWaterLog(UserA, DstDay).amountMl + 250

(***************************************************************************)
(* Claims about the isolation of the users.                                *)
(***************************************************************************)
\* The ids that are not those of a record of user u of the collection docs:
\* the ids of other records, and the id that no record has
ForeignIds(docs, u) == OwnerIds(docs) \ {d.id : d \in {x \in docs : x.userId = u}}

\* The answer of the step is the error with that status and that message.
Answers(status, msg) ==
    /\ req'[1].pc = "done"
    /\ req'[1].status = status
    /\ req'[1].body = [error |-> msg]

\* The answer to a request whose body has the validation message error, ""
\* if none, and whose id matches no record of the user
Refuses(error, notFound) ==
    IF error # "" THEN Answers(400, error) ELSE Answers(404, notFound)

\* C20: no step of a request of the first user changes or deletes a goal, a
\* water log or a sleep entry of the second user; an update or a delete with
\* the id of a record of the second user is answered as the same request
\* with an id that no record has, with not-found when its body is valid.
C20_OtherUsersRecordsUntouched ==
    [][/\ {g \in goals' : g.userId = UserB} = {g \in goals : g.userId = UserB}
       /\ {l \in waterLogs' : l.userId = UserB} = {l \in waterLogs : l.userId = UserB}
       /\ {e \in sleepEntries' : e.userId = UserB}
             = {e \in sleepEntries : e.userId = UserB}
       /\ \A id \in ForeignIds(OwnerGoals, UserA) :
             /\ \A body \in OwnerGoalUpdates :
                   PutGoal(1, UserA, id, body)
                      => Refuses(PutGoalError(body), "Goal not found")
             /\ DeleteGoal(1, UserA, id) => Refuses("", "Goal not found")
       /\ \A id \in ForeignIds(waterLogs, UserA), body \in OwnerWaterUpdates :
             PutWater(1, UserA, id, body)
                => Refuses(IF IsIntMin(body.amountMl, 0) THEN ""
                           ELSE "Amount must be a non-negative number",
                           "Water log not found")
       /\ \A id \in ForeignIds(sleepEntries, UserA) :
             /\ \A body \in SleepUpdates :
                   PutSleep(1, UserA, id, body)
                      => Refuses(PutSleepError(body), "Sleep entry not found")
             /\ DeleteSleep(1, UserA, id) => Refuses("", "Sleep entry not found")]_vars

\* The first user has deleted its own sleep entry and its own custom goal and
\* has been answered not-found for the water log of the second user.
C20_Witness ==
    /\ req[1] = Error("putWater", 404, "Water log not found")
    /\ \A e \in sleepEntries : e.userId = UserB
    /\ \A g \in goals : g.userId = UserA => g.isDefault
    /\ \E l \in waterLogs : l.userId = UserA /\ l.amountMl = 100

(***************************************************************************)
(* Claims about the analytics summary and failures of the store.           *)
(***************************************************************************)
\* A fetch of an answered summary has failed
FetchFailed(a) == "failed" \in DOMAIN a

\* C21: an analytics summary of which a fetch (sleep entries, water logs,
\* goals, today's water log, today's sleep entry) has failed is answered with
\* status 500 and the error alone, with no part of a summary; a summary of
\* which no fetch has failed is answered with the whole structure, in which
\* a day without a record has the value zero.
C21_NoPartialSummary ==
    \A r \in Slots :
        (req[r].pc = "done" /\ req[r].op = "getAnalytics") =>
            LET a == req[r] IN
            IF FetchFailed(a)
            THEN a.status = 500 /\ a.body = [error |-> "Server error"]
            ELSE /\ a.status = 200
                 /\ a.body = Analytics(a.userId, a.query)
                 /\ \A k \in 1 .. Len(a.body.water.liters) :
                       LET day == DayOf(a.at) - Len(a.body.water.liters) + k IN
                       /\ MlOn(a.userId, day) = 0 => a.body.water.liters[k] = 0
                       /\ MinutesOn(a.userId, day) = 0 => a.body.sleep.hours[k] = 0

\* The lookup of today's sleep entry has failed for a user who has records
\* in the range, after the other fetches have been answered.
C21_Witness ==
    /\ req[1].pc = "done" /\ req[1].op = "getAnalytics"
    /\ FetchFailed(req[1]) /\ req[1].failed = "todaySleep"
    /\ req[1].status = 500
    /\ \E l \in waterLogs : l.userId = UserA /\ DayOf(l.date) = DayOf(now)
    /\ \E e \in sleepEntries : e.userId = UserA /\ DayOf(e.date) = DayOf(now)

(***************************************************************************)
(* Claims about a day that has two records.                                *)
(***************************************************************************)
\* Two documents of a collection are of the same user and calendar day
HasDuplicates(docs, u) ==
    \E d, e \in docs :
        d.id # e.id /\ d.userId = u /\ e.userId = u /\ DayOf(d.date) = DayOf(e.date)

\* C22: a weekly water read, a weekly sleep read or an analytics summary of
\* a user who has two water logs (for the sleep read, two sleep entries; for
\* the summary, either) on one calendar day of the period is answered with
\* an error, not with a series built from one of the two records.
C22_DuplicatesSurfaceConflict ==
    [][\A r \in Slots :
          (\/ GetWaterWeek(r, UserA, NoDate) /\ HasDuplicates(waterLogs, UserA)
           \/ GetSleepWeek(r, UserA, NoDate) /\ HasDuplicates(sleepEntries, UserA)
           \/ /\ GetAnalytics(r, UserA, NoRange)
              /\ HasDuplicates(waterLogs, UserA) \/ HasDuplicates(sleepEntries, UserA))
          => req'[r].status >= 400]_vars

(***************************************************************************)
(* Claims about what an update of a goal leaves alone.                     *)
(***************************************************************************)
\* C23: no step changes the label, the unit, the type or the is-default flag
\* of a default goal, whatever label and unit an update by id carries and
\* whatever value an update by id or by type sets.
C23_DefaultGoalUpdateChangesValueOnly ==
    [][\A g \in goals : g.isDefault =>
          \A h \in goals' : h.id = g.id =>
              /\ h.label = g.label
              /\ h.unit = g.unit
              /\ h.type = g.type
              /\ h.isDefault = g.isDefault]_vars

\* An update by id that carried a value, a label and a unit has been
\* answered 200 for a default goal, which has the value of the request and
\* the label and the unit of its creation.
C23_Witness ==
    /\ req[1].pc = "done" /\ req[1].op = "putGoal" /\ req[1].status = 200
    /\ \E g \in goals, i \in DOMAIN DefaultGoals :
          /\ g.id = req[1].id /\ g.isDefault
          /\ g.value = 2 /\ DefaultGoals[i].value # 2
          /\ g.type = DefaultGoals[i].type
          /\ g.label = DefaultGoals[i].label /\ g.unit = DefaultGoals[i].unit

(***************************************************************************)
(* Claims about the screen-time records.                                   *)
(***************************************************************************)
\* C24: at every instant there is at most one ScreenTime record for a user,
\* an app package and a date, there is one for every key that a sync has
\* written, and its usage and app name are those of the entry that was
\* written last for the key: the usage is the number that the entry sent,
\* not a sum.
C24_OneRecordPerKeyWithLastEntry ==
    /\ \A s, t \in screenTimes : ScreenTimeKey(s) = ScreenTimeKey(t) => s = t
    /\ {ScreenTimeKey(s) : s \in screenTimes} = DOMAIN lastSynced
    /\ \A s \in screenTimes :
          /\ s.appName = lastSynced[ScreenTimeKey(s)].appName
          /\ s.usageMs = lastSynced[ScreenTimeKey(s)].usageMs.val

\* A record that was inserted with 1000 ms has been updated by a later entry
\* of the same key, sent with a package name to trim and the usage "2000",
\* while the same user and another user have other records.
C24_Witness ==
    /\ \E s \in screenTimes :
          /\ s.userId = UserA /\ s.appPackage = "com.maps" /\ s.date = "2026-03-08"
          /\ s.usageMs = 2000
          /\ lastSynced[ScreenTimeKey(s)].usageMs = Str(2000)
    /\ \E r \in Slots :
          /\ req[r].pc = "done" /\ req[r].op = "sync" /\ req[r].status = 200
          /\ req[r].body.matched = 1 /\ req[r].body.inserted = 0
    /\ \E s \in screenTimes : s.userId = UserB
    /\ Cardinality(screenTimes) >= 3

\* A call of the screen-time service has returned data
ScreenTimeAnswered(r) ==
    req[r].pc = "done" /\ req[r].op = "getScreenTimeData" /\ "data" \in DOMAIN req[r]

\* C25: data that a call of getScreenTimeData returns from the cache was
\* fetched for the range on the calendar day of the call, and a call with
\* forceRefresh returns no data from the cache.
C25_CacheOfTheCurrentDayOnly ==
    \A r \in Slots :
        (ScreenTimeAnswered(r) /\ req[r].fromCache) =>
            /\ ~req[r].forceRefresh
            /\ IsoDate(req[r].data.fetchedAt) = IsoDate(req[r].at)

(***************************************************************************)
(* Claims about concurrent add-water requests on an existing record.       *)
(***************************************************************************)
\* C26: when no add-water request is in flight, the WaterLog of today of a
\* user who had one before the requests holds what it held before plus the
\* sum of the amounts of all the add-water requests that were answered 201
\* for that day, however the requests were interleaved.
C26_NoLostIncrement ==
    (\A r \in Slots : Free(r)) =>
        \A l \in WaterLogsOf(UserA, DayOf(now)) :
            l.amountMl = StoredWaterLog(UserA, DstDay).amountMl
                         + (IF passedMl = << >> THEN 0
                            ELSE passedMl[<<UserA, StartOfDay(now)>>])

(***************************************************************************)
(* Claims about the days that met the water goal.                          *)
(***************************************************************************)
\* C27: the water.goalMetCount of an answered analytics summary is the
\* number of its days whose stored amount is at least the daily goal in
\* millilitres, which is what the weekly water read counts: a day is met in
\* the one exactly if it is met in the other.
C27_WaterGoalMetOnStoredAmount ==
    AnalyticsAnswered =>
        LET a == req[1] IN
        a.body.water.goalMetCount =
            Cardinality({day \in ReportedDays(a) :
                            MlOn(a.userId, day) >= 1000 * a.body.water.dailyGoalLiters})

(***************************************************************************)
(* Claims about the dashboard and the weekly water read.                   *)
(***************************************************************************)
\* C28: a dashboard summary is answered with the goal-met count and the
\* weekly-goal-met flag that the weekly water read of the current week gives
\* for the same logs, the same goals and the same instant.
C28_DashboardAgreesWithWeeklyRead ==
    [][GetDashboard(1, UserA) =>
          /\ req'[1].body.weeklyGoalMetCount = WaterWeek(UserA, NoDate).goalMetCount
          /\ req'[1].body.weeklyGoalMet = WaterWeek(UserA, NoDate).weeklyGoalMet]_vars

(***************************************************************************)
(* Claims about the amount that an add-water request adds.                 *)
(***************************************************************************)
\* C29: the save of an add-water request that passed the validation leaves
\* the record of the user and day with the amount that was stored before
\* (0 without a record) plus the integer value of the request's amountMl,
\* whether the amount was sent as a number or as a numeric string.
C29_AddsTheIntegerValue ==
    [][PostWaterSave(1) =>
          LET q      == req[1]
              before == FindOneWaterLog(q.userId, q.logDate)
              stored == IF before # NoDoc THEN before.amountMl ELSE 0
          IN  \E l \in waterLogs' :
                 /\ l.userId = q.userId /\ l.date = q.logDate
                 /\ l.amountMl = stored + q.amountMl.val]_vars

(***************************************************************************)
(* Claims about the ranges of the numbers of the analytics summary.        *)
(***************************************************************************)
\* C30: in every answered analytics summary the water and the sleep
\* goal-met counts are between 0 and the number of elapsed days that the
\* summary reports, and the weekly completion rate is between 0 and 100.
C30_CountsAndRateInRange ==
    \A r \in Slots :
        (req[r].pc = "done" /\ req[r].op = "getAnalytics") =>
            LET body    == req[r].body
                elapsed == Len(body.water.days)
            IN  /\ 0 <= body.water.goalMetCount /\ body.water.goalMetCount <= elapsed
                /\ 0 <= body.sleep.goalMetCount /\ body.sleep.goalMetCount <= elapsed
                /\ 0 <= body.goals.weeklyCompletionRatePercent
                /\ body.goals.weeklyCompletionRatePercent <= 100

\* A summary in which every elapsed day met both goals, the goals being of
\* no litres and of less than no hours, and a summary of a negative range
C30_Witness ==
    /\ req[1].pc = "done" /\ req[1].op = "getAnalytics"
    /\ Len(req[1].body.water.days) = 3
    /\ req[1].body.water.goalMetCount = 3
    /\ req[1].body.water.dailyGoalLiters <= 0
    /\ req[1].body.sleep.goalHours < 0
    /\ req[1].body.sleep.goalMetCount >= 1
    /\ req[1].body.goals.weeklyCompletionRatePercent > 50

====
